---- MODULE Spec2Model ----
(***************************************************************************)
(* The crawl subsystem of the competitor analyzer.                         *)
(*                                                                         *)
(* Each component has its own variables and its own specification; the     *)
(* variables of the other components stay at their idle values:            *)
(*   CrawlQueue (services/crawl_queue.py)      Spec, WorkerSpec, ReleaseSpec, *)
(*                                             FrontierSpec                 *)
(*   URLNormalizer (services/crawl_utils.py)   NormSpec                     *)
(*   RobotsParser (services/crawl_utils.py)    RobotsSpec, CacheSpec        *)
(*   PlaywrightCrawler.crawl (services/crawler.py)  CrawlSpec, CrawlFairSpec *)
(*   crawl_competitor (tasks/crawl_tasks.py)   TaskSpec                     *)
(*   URLPrioritizer (services/crawl_queue.py)  PrioSpec                     *)
(*   PriceMonitor (services/price_monitor.py)  PriceSpec                    *)
(*   ContentTracker (services/content_tracker.py)  ContentSpec              *)
(*   SitemapParser (services/crawl_utils.py)   SitemapSpec                  *)
(*   ContentFingerprinter (services/crawl_utils.py)  FpSpec                 *)
(*   scan endpoints (api/crawl.py, api/competitors.py)  ScanApiSpec         *)
(*                                                                         *)
(* The queue is a binary heap (heapq) of CrawlItem records ordered by the  *)
(* priority field alone; seen / in_progress / completed are sets of URLs   *)
(* and failed maps a URL to its last error.  Every method body runs under  *)
(* the queue's asyncio lock and contains no suspension point, so each      *)
(* method is one atomic action.                                            *)
(***************************************************************************)
EXTENDS Integers, Sequences, FiniteSets, TLC

VARIABLES
    queue,        \* self._queue: heap array of CrawlItem
    seen,         \* self._seen
    in_progress,  \* self._in_progress
    completed,    \* self._completed
    failed,       \* self._failed: url -> error message
    held,         \* per URL, the item the last get() returned for it (callers' variable)
    admitted,     \* history: URLs for which add() returned True
    arrival,      \* history: the items of the queue in the order of their added_at
    handed,       \* history: how many times get() has returned each URL
    max_urls,     \* self.max_urls
    released,     \* history: per URL, the retries of the item it was last released with, -1 if never
    raw,          \* URLNormalizer: the parts the URL under normalization was written from
    url,          \* URLNormalizer: the URL string, before and after normalize()
    robots_txt,   \* the robots.txt of the site, a list of lines
    policy,       \* RobotsParser: the RobotsRule made by _parse(), None before
    req_path,     \* the path last asked about
    answer,       \* RobotsParser.is_allowed(policy, req_path)
    now,          \* datetime.utcnow(), in seconds
    cached_at,    \* RobotsParser._cache_timestamps[base_url]; policy is _cache[base_url]
    returned,     \* what the last fetch_and_parse() returned, None before
    refetched,    \* whether the last fetch_and_parse() requested robots.txt
    crawl_queue,  \* PlaywrightCrawler.crawl: its local list "queue" of URLs
    visited_urls, \* PlaywrightCrawler.visited_urls
    pages_crawled,\* PlaywrightCrawler.crawl: its local counter
    scan_pages,   \* the URLs of the ScanPage rows crawl() has committed
    crawl_pc,     \* PlaywrightCrawler.crawl: "idle", "loop" (at the while test), "done" (returned), "raised"
    total_pages,  \* PlaywrightCrawler.crawl: its local total_pages
    progress,     \* Scan.progress, as the progress callback and the task set it
    competitor_found, \* whether the Competitor row exists when the task looks it up
    scan_status,  \* Scan.status
    error_message,\* Scan.error_message
    task_pc,      \* crawl_competitor: "idle", "start", "found", "running" or "done"
    task_error,   \* the exception crawl_competitor caught, None if none
    prio_url,     \* URLPrioritizer.get_priority: its argument url
    link_type,    \* URLPrioritizer.get_priority: its argument link_type, None if not given
    priority,     \* what get_priority() returned, None before the call
    price_history,\* the PriceHistory rows of one product, oldest first; prices in cents
    price_alerts, \* the PriceAlert rows: price_id is the position of the PriceHistory row
    price_results, \* what the last process_prices() returned, None before
    content_row,  \* the Content row of one (competitor, URL), None while there is none
    content_changes,\* the number of ContentChange rows of that Content
    content_alerts,\* the alert_type of the Alert rows written for that URL, oldest first
    content_results, \* the calls of process_page() for that URL, each with what it returned or raised
    sitemap_site, \* the sitemaps of the site: what a GET of each sitemap URL answers
    sitemap_stack,\* SitemapParser.parse: the frames of the calls in progress, the outermost first
    sitemap_fetched,\* history: the GET requests of parse(), each with the budget of its call
    sitemap_result, \* the length of the list the outermost parse() returned, None before
    fp_text,      \* ContentFingerprinter.generate: a text, a sequence of characters
    fp_edited,    \* the text after an edit, None before the edit
    fp_hashes,    \* the full_hash generate() returned for the text and for the edited text, None before
    scans,        \* the rows of the table "scans", in the order of their creation
    scan_tasks,   \* for each row, where its background task is: "none", "scheduled", "running", "done"
    inserting     \* per competitor, the creation requests that have passed their checks and not yet added their row

vars == <<queue, seen, in_progress, completed, failed, held, admitted, arrival, handed, max_urls>>

norm_vars == <<raw, url>>

robots_vars == <<robots_txt, policy, req_path, answer>>

cache_vars == <<now, cached_at, returned, refetched>>

crawl_vars == <<crawl_queue, visited_urls, pages_crawled, scan_pages, crawl_pc, total_pages, progress>>

task_vars == <<competitor_found, scan_status, error_message, task_pc, task_error>>

prio_vars == <<prio_url, link_type, priority>>

price_vars == <<price_history, price_alerts, price_results>>

content_vars == <<content_row, content_changes, content_alerts, content_results>>

sitemap_vars == <<sitemap_site, sitemap_stack, sitemap_fetched, sitemap_result>>

fp_vars == <<fp_text, fp_edited, fp_hashes>>

scan_vars == <<scans, scan_tasks, inserting>>

all_vars == <<vars, released, norm_vars, robots_vars, cache_vars, crawl_vars, task_vars, prio_vars, price_vars, content_vars, sitemap_vars, fp_vars, scan_vars>>

\* the variables outside the CrawlQueue, outside the URLNormalizer, outside the RobotsParser
outside_queue == <<norm_vars, robots_vars, cache_vars, crawl_vars, task_vars, prio_vars, price_vars, content_vars, sitemap_vars, fp_vars, scan_vars>>
outside_norm == <<vars, released, robots_vars, cache_vars, crawl_vars, task_vars, prio_vars, price_vars, content_vars, sitemap_vars, fp_vars, scan_vars>>
outside_robots == <<vars, released, norm_vars, cache_vars, crawl_vars, task_vars, prio_vars, price_vars, content_vars, sitemap_vars, fp_vars, scan_vars>>
outside_cache == <<vars, released, norm_vars, req_path, answer, crawl_vars, task_vars, prio_vars, price_vars, content_vars, sitemap_vars, fp_vars, scan_vars>>
outside_crawl == <<vars, released, norm_vars, robots_vars, cache_vars, task_vars, prio_vars, price_vars, content_vars, sitemap_vars, fp_vars, scan_vars>>
outside_task == <<vars, released, norm_vars, robots_vars, cache_vars, prio_vars, price_vars, content_vars, sitemap_vars, fp_vars, scan_vars>>
outside_prio == <<vars, released, norm_vars, robots_vars, cache_vars, crawl_vars, task_vars, price_vars, content_vars, sitemap_vars, fp_vars, scan_vars>>
outside_price == <<vars, released, norm_vars, robots_vars, cache_vars, crawl_vars, task_vars, prio_vars, content_vars, sitemap_vars, fp_vars, scan_vars>>
outside_content == <<vars, released, norm_vars, robots_vars, cache_vars, crawl_vars, task_vars, prio_vars, price_vars, sitemap_vars, fp_vars, scan_vars>>
outside_sitemap == <<vars, released, norm_vars, robots_vars, cache_vars, crawl_vars, task_vars, prio_vars, price_vars, content_vars, fp_vars, scan_vars>>
outside_fp == <<vars, released, norm_vars, robots_vars, cache_vars, crawl_vars, task_vars, prio_vars, price_vars, content_vars, sitemap_vars, scan_vars>>
outside_scan == <<vars, released, norm_vars, robots_vars, cache_vars, crawl_vars, task_vars, prio_vars, price_vars, content_vars, sitemap_vars, fp_vars>>

----------------------------------------------------------------------------
(* Configuration and input domains *)

\* CrawlPriority values
CRITICAL == 0
HIGH == 1
MEDIUM == 2
LOW == 3
DEFERRED == 4

TIERS == CRITICAL..DEFERRED

\* constructor parameters of CrawlQueue (defaults 5, 3, 1000), kept small
max_depth == 1
max_retries == 1
MaxUrls == 3

URLS == {"/", "/pricing", "/blog/post-1"}
ERRORS == {"timeout", "http 500"}
\* lists of URLs passed to add_many(), one of them with a repeated URL, and its tiers
URL_LISTS == {<<"/", "/pricing">>, <<"/blog/post-1", "/blog/post-1", "/">>}
ADD_MANY_TIERS == {HIGH, MEDIUM}
\* tiers passed to add(); LOW is reached by the demotion of fail()
ADD_TIERS == {CRITICAL, HIGH, MEDIUM, DEFERRED}
\* values of max_urls: one below the number of URLs, so that the cap binds, and MaxUrls
MAX_URLS == {Cardinality(URLS) - 1, MaxUrls}
\* depths passed to add(): the limit itself and one past it
DEPTHS == {max_depth, max_depth + 1}

\* Optional[CrawlItem]: <<>> is None, <<it>> is an item
None == <<>>
Some(it) == <<it>>

CrawlItem(p, u, d, r) == [priority |-> p, url |-> u, depth |-> d, retries |-> r]

\* a queue that is not in use
QueueIdle ==
    /\ queue = <<>> /\ seen = {} /\ in_progress = {} /\ completed = {} /\ failed = <<>>
    /\ held = [u \in URLS |-> None] /\ admitted = {} /\ arrival = <<>>
    /\ handed = [u \in URLS |-> 0] /\ released = [u \in URLS |-> -1]
    /\ max_urls = MaxUrls

\* no URL is under normalization
NormalizerIdle == raw = <<>> /\ url = <<>>

\* no robots.txt has been read
RobotsIdle == robots_txt = <<>> /\ policy = None /\ req_path = <<>> /\ answer = TRUE

\* fetch_and_parse() has not been called
CacheIdle == now = 0 /\ cached_at = 0 /\ returned = None /\ refetched = FALSE

\* no crawl is running
CrawlIdle ==
    /\ crawl_queue = <<>> /\ visited_urls = {} /\ pages_crawled = 0 /\ scan_pages = {} /\ crawl_pc = "idle"
    /\ total_pages = 0 /\ progress = 0

\* no crawl task has been started
TaskIdle ==
    /\ competitor_found = TRUE /\ scan_status = "pending" /\ error_message = None
    /\ task_pc = "idle" /\ task_error = None

\* get_priority() is not in use
PrioritizerIdle ==
    prio_url = <<>> /\ link_type = None /\ priority = None

\* no price has been observed
PriceIdle ==
    price_history = <<>> /\ price_alerts = {} /\ price_results = None

\* no page has been processed
ContentIdle ==
    content_row = None /\ content_changes = 0 /\ content_alerts = <<>> /\ content_results = <<>>

\* parse() is not in use
SitemapIdle ==
    sitemap_site = <<>> /\ sitemap_stack = <<>> /\ sitemap_fetched = <<>> /\ sitemap_result = None

\* generate() is not in use
FingerprinterIdle ==
    fp_text = <<>> /\ fp_edited = None /\ fp_hashes = None

\* no scan has been requested
ScanApiIdle ==
    scans = <<>> /\ scan_tasks = <<>> /\ inserting = <<>>

----------------------------------------------------------------------------
(* heapq on a list of CrawlItem; positions are Python's, 0-based *)

\* the comparison turned round
LessReversed(a, b) == a.priority > b.priority

\* dataclass(order=True) with priority the only compared field
Less(a, b) == a.priority < b.priority

At(heap, i) == heap[i + 1]
Put(heap, i, x) == [heap EXCEPT ![i + 1] = x]

RECURSIVE SiftDownLoop(_, _, _, _)
SiftDownLoop(heap, startpos, pos, newitem) ==
    IF pos > startpos
    THEN LET parentpos == (pos - 1) \div 2
             parent == At(heap, parentpos)
         IN IF Less(newitem, parent)
            THEN SiftDownLoop(Put(heap, pos, parent), startpos, parentpos, newitem)
            ELSE Put(heap, pos, newitem)
    ELSE Put(heap, pos, newitem)

\* heapq._siftdown
siftdown(heap, startpos, pos) == SiftDownLoop(heap, startpos, pos, At(heap, pos))

RECURSIVE SiftUpLoop(_, _, _, _)
SiftUpLoop(heap, pos, childpos, newitem) ==
    LET endpos == Len(heap) IN
    IF childpos < endpos
    THEN LET rightpos == childpos + 1
             c == IF rightpos < endpos /\ ~Less(At(heap, childpos), At(heap, rightpos))
                  THEN rightpos ELSE childpos
         IN SiftUpLoop(Put(heap, pos, At(heap, c)), c, 2 * c + 1, newitem)
    ELSE siftdown(Put(heap, pos, newitem), 0, pos)

\* heapq._siftup(heap, 0)
siftup(heap) == SiftUpLoop(heap, 0, 1, At(heap, 0))

\* heapq.heappush
heappush(heap, item) == siftdown(Append(heap, item), 0, Len(heap))

\* heapq.heappop: the item popped and the heap left
heappop(heap) ==
    LET lastelt == heap[Len(heap)]
        rest == SubSeq(heap, 1, Len(heap) - 1)
    IN IF rest # <<>>
       THEN [item |-> rest[1], heap |-> siftup(Put(rest, 0, lastelt))]
       ELSE [item |-> lastelt, heap |-> rest]

----------------------------------------------------------------------------
(* CrawlQueue *)

\* CrawlQueue.__init__
Init ==
    /\ queue = <<>>
    /\ seen = {}
    /\ in_progress = {}
    /\ completed = {}
    /\ failed = <<>>
    /\ held = [u \in URLS |-> None]
    /\ admitted = {}
    /\ arrival = <<>>
    /\ handed = [u \in URLS |-> 0]
    /\ max_urls \in MAX_URLS
    /\ released = [u \in URLS |-> -1]
    /\ NormalizerIdle
    /\ RobotsIdle
    /\ CacheIdle
    /\ CrawlIdle
    /\ TaskIdle
    /\ PrioritizerIdle
    /\ PriceIdle
    /\ ContentIdle
    /\ SitemapIdle
    /\ FingerprinterIdle
    /\ ScanApiIdle

\* add() without the depth rejection
AddAdmitsNoDepth(s, u, d) ==
    /\ ~(Cardinality(s) >= max_urls)
    /\ ~(u \in s)

\* add() without the "already seen" rejection
AddAdmitsNoDedup(s, u, d) ==
    /\ ~(Cardinality(s) >= max_urls)
    /\ ~(d > max_depth)

\* add() with the cap compared by > instead of >=
AddAdmitsCapOffByOne(s, u, d) ==
    /\ ~(Cardinality(s) > max_urls)
    /\ ~(d > max_depth)
    /\ ~(u \in s)

\* add(): True unless one of the three rejections, in the order of the code
AddAdmits(s, u, d) ==
    /\ ~(Cardinality(s) >= max_urls)
    /\ ~(d > max_depth)
    /\ ~(u \in s)

\* what add() touches, and the number of calls that returned True
Admission == [seen |-> seen, queue |-> queue, admitted |-> admitted, arrival |-> arrival, added |-> 0]

\* one call of add() on st
AddOne(st, u, p, d) ==
    IF AddAdmits(st.seen, u, d)
    THEN LET item == CrawlItem(p, u, d, 0) IN
         [seen |-> st.seen \cup {u},
          queue |-> heappush(st.queue, item),
          admitted |-> st.admitted \cup {u},
          arrival |-> Append(st.arrival, item),
          added |-> st.added + 1]
    ELSE st

\* the loop of add_many()
RECURSIVE AddAll(_, _, _, _)
AddAll(st, urls, p, d) ==
    IF urls = <<>> THEN st
    ELSE AddAll(AddOne(st, Head(urls), p, d), Tail(urls), p, d)

Admit(st) ==
    /\ seen' = st.seen
    /\ queue' = st.queue
    /\ admitted' = st.admitted
    /\ arrival' = st.arrival
    /\ UNCHANGED <<in_progress, completed, failed, held, handed, max_urls, released, outside_queue>>

Add(u, p, d) == Admit(AddOne(Admission, u, p, d))

AddMany(urls, p, d) == Admit(AddAll(Admission, urls, p, d))

\* the loop of get() without the test for completed URLs
RECURSIVE GetLoopReturnsCompleted(_, _, _)
GetLoopReturnsCompleted(q, done, busy) ==
    IF q = <<>>
    THEN [item |-> None, heap |-> q]
    ELSE LET r == heappop(q) IN
         IF r.item.url \in busy
         THEN GetLoopReturnsCompleted(r.heap, done, busy)
         ELSE [item |-> Some(r.item), heap |-> r.heap]

\* the loop of get(): pop until an item is neither completed nor in progress
RECURSIVE GetLoop(_, _, _)
GetLoop(q, done, busy) ==
    IF q = <<>>
    THEN [item |-> None, heap |-> q]
    ELSE LET r == heappop(q) IN
         IF r.item.url \in done \/ r.item.url \in busy
         THEN GetLoop(r.heap, done, busy)
         ELSE [item |-> Some(r.item), heap |-> r.heap]

\* what get() returns in the current state, and the heap it leaves
GetResult == GetLoop(queue, completed, in_progress)

\* the items of arr that are still in heap, in the order of arr
RECURSIVE Remaining(_, _)
Remaining(arr, heap) ==
    IF arr = <<>> THEN <<>>
    ELSE IF \E i \in DOMAIN heap : heap[i] = Head(arr)
         THEN <<Head(arr)>> \o Remaining(Tail(arr), heap)
         ELSE Remaining(Tail(arr), heap)

Get ==
    LET r == GetResult IN
    /\ queue' = r.heap
    /\ arrival' = Remaining(arrival, r.heap)
    /\ IF r.item # None
       THEN LET it == r.item[1] IN
            /\ in_progress' = in_progress \cup {it.url}
            /\ held' = [held EXCEPT ![it.url] = Some(it)]
            /\ handed' = [handed EXCEPT ![it.url] = @ + 1]
       ELSE UNCHANGED <<in_progress, held, handed>>
    /\ UNCHANGED <<seen, completed, failed, admitted, max_urls, released, outside_queue>>

\* the two statements of complete()
CompleteSets(u, busy, done) == [in_progress |-> busy \ {u}, completed |-> done \cup {u}]

Complete(u) ==
    LET r == CompleteSets(u, in_progress, completed) IN
    /\ in_progress' = r.in_progress
    /\ completed' = r.completed
    /\ held' = [held EXCEPT ![u] = None]
    /\ UNCHANGED <<queue, seen, failed, admitted, arrival, handed, max_urls, released, outside_queue>>

\* self._failed[url] = error
SetFailed(f, u, e) == [x \in (DOMAIN f) \cup {u} |-> IF x = u THEN e ELSE f[x]]

\* the demotion without its cap
DemoteNoCap(p) == p + 1

\* min(item.priority + 1, CrawlPriority.DEFERRED.value)
Demote(p) == IF p + 1 < DEFERRED THEN p + 1 ELSE DEFERRED

\* the retry test with <= instead of <
CanRetryOffByOne(item) == item # None /\ item[1].retries <= max_retries

\* "item and item.retries < self.max_retries"
CanRetry(item) == item # None /\ item[1].retries < max_retries

\* fail(url, error, item); item is None or a CrawlItem
Fail(u, e, item) ==
    /\ in_progress' = in_progress \ {u}
    /\ IF CanRetry(item)
       THEN LET it == item[1]
                new_item == CrawlItem(Demote(it.priority), u, it.depth, it.retries + 1)
            IN /\ queue' = heappush(queue, new_item)
               /\ arrival' = Append(arrival, new_item)
               /\ UNCHANGED failed
       ELSE /\ failed' = SetFailed(failed, u, e)
            /\ UNCHANGED <<queue, arrival>>
    /\ held' = [held EXCEPT ![u] = None]
    /\ UNCHANGED <<seen, completed, admitted, handed, max_urls, released, outside_queue>>

\* a release that also forgets the URL was seen
ReleaseForgets(u) ==
    /\ in_progress' = in_progress \ {u}
    /\ seen' = seen \ {u}
    /\ UNCHANGED <<queue, completed, failed, held, admitted, arrival, handed, max_urls, outside_queue>>

Release(u) ==
    /\ in_progress' = in_progress \ {u}
    /\ UNCHANGED <<queue, seen, completed, failed, held, admitted, arrival, handed, max_urls, outside_queue>>

is_empty == Len(queue) = 0 /\ Cardinality(in_progress) = 0

(* Callers.  A caller that got an item from get() reports it once: with     *)
(* complete(url), with fail(url, error, item), or with fail(url, error),    *)
(* whose item defaults to None.  complete(url) is also called for a URL no  *)
(* caller holds.                                                            *)

HolderComplete == \E u \in URLS : held[u] # None /\ Complete(u)
HolderFail == \E u \in URLS, e \in ERRORS : held[u] # None /\ Fail(u, e, held[u])
HolderFailNoItem == \E u \in URLS, e \in ERRORS : held[u] # None /\ Fail(u, e, None)
OtherComplete == \E u \in URLS : held[u] = None /\ Complete(u)

WorkerNext ==
    \/ \E u \in URLS, p \in ADD_TIERS, d \in DEPTHS : Add(u, p, d)
    \/ \E urls \in URL_LISTS, p \in ADD_MANY_TIERS, d \in DEPTHS : AddMany(urls, p, d)
    \/ Get
    \/ HolderComplete
    \/ HolderFail

\* the workers' cycle on a frontier whose URLs are also completed from outside
\* the cycle, which leaves entries of completed URLs in the queue
FrontierNext ==
    \/ WorkerNext
    \/ OtherComplete

Next ==
    \/ WorkerNext
    \/ HolderFailNoItem
    \/ OtherComplete
    \/ \E u \in URLS : Release(u) /\ UNCHANGED released

\* release(url) of a URL in progress, with the retries of its item recorded
HolderRelease ==
    \E u \in URLS :
        /\ u \in in_progress /\ held[u] # None
        /\ Release(u)
        /\ released' = [released EXCEPT ![u] = held[u][1].retries]

ReleaseNext ==
    \/ \E u \in URLS, p \in ADD_MANY_TIERS, d \in DEPTHS : Add(u, p, d)
    \/ Get
    \/ HolderComplete
    \/ HolderFail
    \/ HolderRelease

----------------------------------------------------------------------------
(* Properties *)

Queued(u) == \E i \in DOMAIN queue : queue[i].url = u
Eligible(it) == it.url \notin completed /\ it.url \notin in_progress
Count(q, x) == Cardinality({i \in DOMAIN q : q[i] = x})
Before(arr, a, b) == \E i, j \in DOMAIN arr : i < j /\ arr[i] = a /\ arr[j] = b

\* C1: within one session, once add(u) has returned True every later add(u)
\* returns False, whatever tier or depth is passed and whatever get, complete,
\* fail or release calls came in between.
C1_Dedup == \A u \in admitted, d \in DEPTHS : ~AddAdmits(seen, u, d)

\* an admitted URL has been completed, the cap is not reached: add(u) is refused as a duplicate
C1_Witness ==
    \E u \in admitted : u \in completed /\ ~Queued(u) /\ Cardinality(seen) < max_urls

\* C2: the item get() returns has the lowest tier value among the queued items
\* that are neither completed nor in progress.
C2_PriorityOrder ==
    GetResult.item # None =>
        \A i \in DOMAIN queue :
            Eligible(queue[i]) => GetResult.item[1].priority <= queue[i].priority

\* "/" (CRITICAL) was returned by get() while "/pricing" (HIGH) and "/blog/post-1"
\* (MEDIUM), admitted before it, are still queued, and "/pricing" is next
C2_Witness ==
    /\ held["/"] # None /\ held["/"][1].priority = CRITICAL /\ "/" \in in_progress
    /\ Len(arrival) = 2
    /\ arrival[1] = CrawlItem(MEDIUM, "/blog/post-1", max_depth, 0)
    /\ arrival[2] = CrawlItem(HIGH, "/pricing", max_depth, 0)
    /\ GetResult.item = Some(arrival[2])

\* C3: items of the same tier are returned by get() in the order in which they
\* were admitted: get() never returns an item while an item of the same tier
\* that was queued before it is still eligible.
C3_FifoWithinTier ==
    GetResult.item # None =>
        \A i \in DOMAIN queue :
            (Eligible(queue[i]) /\ queue[i].priority = GetResult.item[1].priority)
                => ~Before(arrival, queue[i], GetResult.item[1])

\* C4: total_seen never exceeds max_urls, and when it equals max_urls every
\* add() returns False.
C4_Capacity ==
    /\ Cardinality(seen) <= max_urls
    /\ Cardinality(seen) = max_urls => \A u \in URLS, d \in DEPTHS : ~AddAdmits(seen, u, d)

\* the cap is reached while a URL was never seen: add() refuses it for the cap alone
C4_Witness == Cardinality(seen) = max_urls /\ seen # URLS

\* C5: every URL that is queued, in progress, completed or failed is in seen.
C5_SeenSuperset ==
    \A u \in URLS :
        (Queued(u) \/ u \in in_progress \/ u \in completed \/ u \in DOMAIN failed) => u \in seen

\* C6: no URL is in more than one of the queue, in_progress and completed.
C6_OneOfThree ==
    \A u \in URLS :
        /\ ~(Queued(u) /\ u \in in_progress)
        /\ ~(Queued(u) /\ u \in completed)
        /\ ~(u \in in_progress /\ u \in completed)

\* C7: fail(u, err, item) with item.retries < max_retries takes u out of
\* in_progress and puts one new entry for u in the queue, with retries
\* item.retries + 1 and the tier one step down, DEFERRED staying DEFERRED;
\* it leaves failed as it was.
C7_RetryDemotion ==
    [][\A u \in URLS, e \in ERRORS :
          (held[u] # None /\ held'[u] = None
              /\ held[u][1].retries < max_retries /\ Fail(u, e, held[u])) =>
              LET it == held[u][1]
                  tier == IF it.priority = DEFERRED THEN DEFERRED ELSE it.priority + 1
                  new == CrawlItem(tier, u, it.depth, it.retries + 1)
              IN /\ u \notin in_progress'
                 /\ failed' = failed
                 /\ tier <= DEFERRED
                 /\ Len(queue') = Len(queue) + 1
                 /\ Count(queue', new) = Count(queue, new) + 1
                 /\ \A i \in DOMAIN queue : Count(queue', queue[i]) >= Count(queue, queue[i])
      ]_vars

\* an item that was HIGH is back in the queue at MEDIUM after its first failure,
\* and is what get() returns next
C7_Witness ==
    \E i \in DOMAIN queue :
        /\ queue[i].retries = 1 /\ queue[i].priority = MEDIUM
        /\ queue[i].url \notin in_progress /\ queue[i].url \notin DOMAIN failed
        /\ GetResult.item = Some(queue[i])

\* C8: a URL that is taken with get() and failed with the item get() returned,
\* again and again, is handed out max_retries + 1 times: it is never handed out
\* more often, and when it is in failed it has been handed out exactly that
\* often, is not in progress and has no entry in the queue; the error recorded
\* is the one of the last fail().
C8_RetryExhaustion ==
    /\ [](\A u \in URLS :
            /\ handed[u] <= max_retries + 1
            /\ u \in DOMAIN failed =>
                   handed[u] = max_retries + 1 /\ u \notin in_progress /\ ~Queued(u))
    /\ [][\A u \in URLS, e \in ERRORS :
            (held[u] # None /\ held[u][1].retries >= max_retries /\ Fail(u, e, held[u])) =>
                (u \in DOMAIN failed' /\ failed'[u] = e)
       ]_vars

C8_Witness ==
    \E u \in DOMAIN failed :
        handed[u] = max_retries + 1 /\ u \notin in_progress /\ ~Queued(u)

\* C9: once every admitted URL is completed or failed, is_empty() is True.
C9_Termination ==
    (\A u \in admitted : u \in completed \/ u \in DOMAIN failed) => is_empty

\* C10: complete(u) for a URL that is not in progress changes nothing.
C10_CompleteNoOp ==
    [][\A u \in URLS :
          (u \notin in_progress /\ Complete(u)) =>
              UNCHANGED <<queue, seen, in_progress, completed, failed>>
      ]_vars

\* what release(u) leaves alone, and what add(u) answers for a URL that was released
ReleaseFrame ==
    \A u \in URLS :
        Release(u) =>
            /\ in_progress' = in_progress \ {u}
            /\ UNCHANGED <<queue, seen, completed, failed>>

ReleasedStaysSeen ==
    \A u \in URLS :
        released[u] >= 0 => (u \in seen /\ \A d \in DEPTHS : ~AddAdmits(seen, u, d))

C12_DepthBound ==
    /\ \A u \in URLS, d \in DEPTHS : d > max_depth => ~AddAdmits(seen, u, d)
    /\ \A i \in DOMAIN queue : queue[i].depth <= max_depth
    /\ \A u \in URLS : held[u] # None => held[u][1].depth <= max_depth
    /\ GetResult.item # None => GetResult.item[1].depth <= max_depth

\* an item at the depth limit is back in the queue after a fail(), while a URL
\* not seen yet would be refused for its depth alone
C12_Witness ==
    /\ \E i \in DOMAIN queue : queue[i].retries > 0 /\ queue[i].depth = max_depth
    /\ seen # URLS /\ Cardinality(seen) < max_urls

----------------------------------------------------------------------------
(* URLNormalizer.  A URL string is the sequence of its lexical pieces:      *)
(* <<"https", "://", "EX.com", ":443", "/", "a", "/", "?", "utm_source",    *)
(* "=", "x", "#", "top">>.                                                   *)

\* the deny-list of query parameters
STRIP_PARAMS ==
    {"utm_source", "utm_medium", "utm_campaign", "utm_term", "utm_content",
     "fbclid", "gclid", "msclkid", "ref", "source", "mc_cid", "mc_eid",
     "sessionid", "sid", "jsessionid", "_ga", "_gid"}

\* the most slashes written at the end of a path
MaxSlashes == 2

SCHEMES == {"http", "HTTP", "https"}
HOSTS == {"ex.com", "EX.com"}
PORTS == {<<>>, <<":80">>, <<":443">>}
FRAGMENTS == {<<>>, <<"top">>}
\* query strings as lists of <<name, value>>; "" is a blank value
PARAM_LISTS ==
    {<<>>,
     <<<<"utm_source", "x">>>>,
     <<<<"b", "2">>, <<"a", "1">>>>,
     <<<<"a", "1">>, <<"UTM_Source", "x">>, <<"a", "2">>>>,
     <<<<"utm_id", "3">>>>,
     <<<<"a", "">>, <<"ref", "x">>>>}

Slashes(n) == [i \in 1..n |-> "/"]
PATHS == {segs \o Slashes(n) : segs \in {<<>>, <<"/", "a">>}, n \in 0..MaxSlashes}

URL_PARTS ==
    [scheme : SCHEMES, host : HOSTS, port : PORTS, path : PATHS,
     params : PARAM_LISTS, fragment : FRAGMENTS]

\* str.lower() on the pieces in use
lower(t) ==
    CASE t = "HTTP" -> "http"
      [] t = "EX.com" -> "ex.com"
      [] t = "UTM_Source" -> "utm_source"
      [] t = "User-agent" -> "user-agent"
      [] t = "Disallow" -> "disallow"
      [] t = "Allow" -> "allow"
      [] t = "Googlebot" -> "googlebot"
      [] t = "Blog" -> "blog"
      [] OTHER -> t

\* the names of the parameters in use in the order of Python's string comparison
KEY_ORDER == <<"UTM_Source", "a", "b", "ref", "utm_id", "utm_source">>
Rank(k) == CHOOSE i \in DOMAIN KEY_ORDER : KEY_ORDER[i] = k

RECURSIVE Join(_, _)
Join(strs, sep) ==
    IF strs = <<>> THEN <<>>
    ELSE IF Len(strs) = 1 THEN strs[1]
    ELSE strs[1] \o <<sep>> \o Join(Tail(strs), sep)

\* a name and a value as written in a query string
Pair(kv) == IF kv[2] = "" THEN <<kv[1], "=">> ELSE <<kv[1], "=", kv[2]>>

\* the URL string written from its parts
Str(c) ==
    <<c.scheme, "://", c.host>> \o c.port \o c.path
        \o (IF c.params # <<>> THEN <<"?">> \o Join([i \in DOMAIN c.params |-> Pair(c.params[i])], "&") ELSE <<>>)
        \o (IF c.fragment # <<>> THEN <<"#">> \o c.fragment ELSE <<>>)

\* the position of the first piece of s that is in set, Len(s) + 1 if there is none
First(s, set) ==
    IF \E i \in DOMAIN s : s[i] \in set
    THEN CHOOSE i \in DOMAIN s : s[i] \in set /\ \A j \in 1..(i - 1) : s[j] \notin set
    ELSE Len(s) + 1

\* urllib.parse.urlparse of an absolute URL
urlparse(u) ==
    LET rest == SubSeq(u, 3, Len(u))
        n == First(rest, {"/", "?", "#"})
        after == SubSeq(rest, n, Len(rest))
        h == First(after, {"#"})
        nofrag == SubSeq(after, 1, h - 1)
        q == First(nofrag, {"?"})
    IN [scheme |-> u[1],
        netloc |-> SubSeq(rest, 1, n - 1),
        path |-> SubSeq(nofrag, 1, q - 1),
        query |-> SubSeq(nofrag, q + 1, Len(nofrag)),
        fragment |-> SubSeq(after, h + 1, Len(after))]

\* str.split(sep)
RECURSIVE Split(_, _)
Split(s, sep) ==
    LET i == First(s, {sep}) IN
    IF i > Len(s) THEN <<s>>
    ELSE <<SubSeq(s, 1, i - 1)>> \o Split(SubSeq(s, i + 1, Len(s)), sep)

\* the dict of parse_qs with one more name and value
AddValue(d, k, v) ==
    IF \E i \in DOMAIN d : d[i].key = k
    THEN [i \in DOMAIN d |-> IF d[i].key = k THEN [d[i] EXCEPT !.values = Append(@, v)] ELSE d[i]]
    ELSE Append(d, [key |-> k, values |-> <<v>>])

RECURSIVE ParsePairs(_, _)
ParsePairs(pairs, d) ==
    IF pairs = <<>> THEN d
    ELSE LET nv == Head(pairs) IN
         IF Len(nv) = 3 /\ nv[2] = "="
         THEN ParsePairs(Tail(pairs), AddValue(d, nv[1], nv[3]))
         ELSE ParsePairs(Tail(pairs), d)

\* urllib.parse.parse_qs: names without a value and blank values are dropped
parse_qs(query) == ParsePairs(Split(query, "&"), <<>>)

\* {k: v for k, v in query_params.items() if k.lower() not in cls.STRIP_PARAMS}
RECURSIVE Filtered(_)
Filtered(d) ==
    IF d = <<>> THEN <<>>
    ELSE IF lower(Head(d).key) \in STRIP_PARAMS THEN Filtered(Tail(d))
    ELSE <<Head(d)>> \o Filtered(Tail(d))

RECURSIVE Insert(_, _)
Insert(sorted, x) ==
    IF sorted = <<>> THEN <<x>>
    ELSE IF Rank(x.key) < Rank(Head(sorted).key) THEN <<x>> \o sorted
    ELSE <<Head(sorted)>> \o Insert(Tail(sorted), x)

\* sorted(filtered_params.items())
RECURSIVE Sorted(_)
Sorted(d) == IF d = <<>> THEN <<>> ELSE Insert(Sorted(Tail(d)), Head(d))

\* urlencode(items, doseq=True)
RECURSIVE urlencode(_)
urlencode(items) ==
    IF items = <<>> THEN <<>>
    ELSE LET it == Head(items)
             one == Join([i \in DOMAIN it.values |-> <<it.key, "=", it.values[i]>>], "&")
             more == urlencode(Tail(items))
         IN IF more = <<>> THEN one ELSE one \o <<"&">> \o more

\* urllib.parse.urlunparse((scheme, netloc, path, '', query, ''))
urlunparse(scheme, netloc, path, query) ==
    <<scheme, "://">> \o netloc
        \o (IF path # <<>> /\ path[1] # "/" THEN <<"/">> ELSE <<>>) \o path
        \o (IF query # <<>> THEN <<"?">> \o query ELSE <<>>)

\* path.rstrip('/')
RECURSIVE rstrip(_)
rstrip(path) ==
    IF path # <<>> /\ path[Len(path)] = "/" THEN rstrip(SubSeq(path, 1, Len(path) - 1)) ELSE path

\* URLNormalizer.normalize(url), url absolute
normalize(u) ==
    LET parsed == urlparse(u)
        scheme == lower(parsed.scheme)
        lowered == [i \in DOMAIN parsed.netloc |-> lower(parsed.netloc[i])]
        last == IF lowered = <<>> THEN "" ELSE lowered[Len(lowered)]
        netloc == IF (last = ":80" /\ scheme = "http") \/ (last = ":443" /\ scheme = "https")
                  THEN SubSeq(lowered, 1, Len(lowered) - 1)
                  ELSE lowered
        path0 == IF parsed.path = <<>> THEN <<"/">> ELSE parsed.path
        path == IF path0 # <<"/">> /\ path0[Len(path0)] = "/" THEN rstrip(path0) ELSE path0
        filtered_params == Filtered(parse_qs(parsed.query))
        query == IF filtered_params # <<>> THEN urlencode(Sorted(filtered_params)) ELSE <<>>
    IN urlunparse(scheme, netloc, path, query)

\* a URL is handed to the normalizer
NormInit ==
    /\ raw \in URL_PARTS
    /\ url = Str(raw)
    /\ QueueIdle
    /\ RobotsIdle
    /\ CacheIdle
    /\ CrawlIdle
    /\ TaskIdle
    /\ PrioritizerIdle
    /\ PriceIdle
    /\ ContentIdle
    /\ SitemapIdle
    /\ FingerprinterIdle
    /\ ScanApiIdle

\* url = URLNormalizer.normalize(url)
Normalize ==
    /\ url' = normalize(url)
    /\ UNCHANGED <<raw, outside_norm>>

NormNext == Normalize

\* C13: normalize(normalize(u)) = normalize(u) for every URL u, whatever its
\* scheme and host case, port, slashes, query parameters and fragment.
C13_Idempotent == normalize(normalize(url)) = normalize(url)

\* the names the deny-list is said to hold: utm_*, click ids, ref, session ids
TRACKING == {"utm_source", "utm_id", "fbclid", "ref", "sid"}

\* the port a scheme implies
DefaultPort(scheme) == IF lower(scheme) = "http" THEN <<":80">> ELSE <<":443">>

\* the URLs that differ from c in one tracking parameter, one trailing slash,
\* the letter case of scheme or host, the default port or the fragment
Variants(c) ==
    {[c EXCEPT !.params = Append(@, <<k, "x">>)] : k \in TRACKING}
        \cup {[c EXCEPT !.path = @ \o <<"/">>]}
        \cup {[c EXCEPT !.scheme = x] : x \in {x \in SCHEMES : lower(x) = lower(c.scheme)}}
        \cup {[c EXCEPT !.host = x] : x \in HOSTS}
        \cup {[c EXCEPT !.port = x] : x \in IF c.port \in {<<>>, DefaultPort(c.scheme)} THEN {<<>>, DefaultPort(c.scheme)} ELSE {c.port}}
        \cup {[c EXCEPT !.fragment = x] : x \in FRAGMENTS}

\* C14: two URLs that differ only in deny-listed tracking parameters, in a
\* trailing slash, in the case of scheme or host, in the default port or in
\* the fragment normalize to the same string.
C14_Equivalence == \A v \in Variants(raw) : normalize(Str(v)) = normalize(Str(raw))

----------------------------------------------------------------------------
(* RobotsParser.  A robots.txt is a list of lines [key, value]; the value   *)
(* of a rule line and a path are sequences of characters, <<"/", "a">>.     *)

\* the most lines of a robots.txt
MaxLines == 4

AGENTS == {"*", "Googlebot", "bingbot"}
PATTERNS == {<<"/">>, <<"/", "a", "$">>, <<"/", "*", "b">>}
ASKED == {<<"/">>, <<"/", "a">>, <<"/", "a", "b">>, <<"/", "b", "a">>}

LINES ==
    [key : {"User-agent"}, value : {<<a>> : a \in AGENTS}]
        \cup [key : {"Allow", "Disallow"}, value : PATTERNS]
        \cup [key : {"Disallow"}, value : {<<>>}]

\* RobotsRule(user_agent="*")
RobotsRule(allowed, disallowed) == [allowed |-> allowed, disallowed |-> disallowed]

\* the test of _parse() on the agents read so far
Addressed(current_agents) ==
    (\E i \in DOMAIN current_agents : current_agents[i] = "*")
        \/ (\E i \in DOMAIN current_agents : current_agents[i] = "googlebot")

\* the loop of _parse(): st is [current_agents, rule]
RECURSIVE ParseLines(_, _)
ParseLines(lines, st) ==
    IF lines = <<>> THEN st.rule
    ELSE LET key == lower(Head(lines).key)
             value == Head(lines).value
             next ==
                 IF key = "user-agent"
                 THEN [st EXCEPT !.current_agents = Append(@, lower(value[1]))]
                 ELSE IF key = "disallow" /\ Addressed(st.current_agents)
                 THEN IF value # <<>> THEN [st EXCEPT !.rule.disallowed = Append(@, value)] ELSE st
                 ELSE IF key = "allow" /\ Addressed(st.current_agents)
                 THEN IF value # <<>> THEN [st EXCEPT !.rule.allowed = Append(@, value)] ELSE st
                 ELSE st
         IN ParseLines(Tail(lines), next)

\* RobotsParser._parse(content)
_parse(content) == ParseLines(content, [current_agents |-> <<>>, rule |-> RobotsRule(<<>>, <<>>)])

\* re.escape(pattern).replace("\\*", ".*"), with "$" put for the escaped "$" at the end
Regex(pattern) ==
    LET escaped == [i \in DOMAIN pattern |->
                       IF pattern[i] = "*" THEN ".*"
                       ELSE IF pattern[i] = "$" THEN "\\$"
                       ELSE pattern[i]]
    IN IF pattern[Len(pattern)] = "$"
       THEN SubSeq(escaped, 1, Len(escaped) - 1) \o <<"$">>
       ELSE escaped

\* re.match(regex, s)
RECURSIVE re_match(_, _)
re_match(regex, s) ==
    IF regex = <<>> THEN TRUE
    ELSE IF Head(regex) = ".*"
    THEN \E k \in 0..Len(s) : re_match(Tail(regex), SubSeq(s, k + 1, Len(s)))
    ELSE IF Head(regex) = "$"
    THEN s = <<>> /\ re_match(Tail(regex), s)
    ELSE IF Head(regex) = "\\$"
    THEN s # <<>> /\ Head(s) = "$" /\ re_match(Tail(regex), Tail(s))
    ELSE s # <<>> /\ Head(s) = Head(regex) /\ re_match(Tail(regex), Tail(s))

\* str.startswith
startswith(s, prefix) == Len(prefix) <= Len(s) /\ SubSeq(s, 1, Len(prefix)) = prefix

\* RobotsParser._matches(pattern, path)
_matches(pattern, p) ==
    IF \E i \in DOMAIN pattern : pattern[i] = "*"
    THEN re_match(Regex(pattern), p)
    ELSE IF pattern[Len(pattern)] = "$"
    THEN p = SubSeq(pattern, 1, Len(pattern) - 1)
    ELSE startswith(p, pattern)

\* "for pattern in patterns: if self._matches(pattern, path): return"
RECURSIVE AnyMatch(_, _)
AnyMatch(patterns, p) ==
    IF patterns = <<>> THEN FALSE
    ELSE IF _matches(Head(patterns), p) THEN TRUE
    ELSE AnyMatch(Tail(patterns), p)

\* is_allowed() with the Disallow loop before the Allow loop
IsAllowedDisallowFirst(rule, p) ==
    IF AnyMatch(rule.disallowed, p) THEN FALSE
    ELSE TRUE

\* RobotsParser.is_allowed(rule, path)
is_allowed(rule, p) ==
    IF AnyMatch(rule.allowed, p) THEN TRUE
    ELSE IF AnyMatch(rule.disallowed, p) THEN FALSE
    ELSE TRUE

\* the site serves no robots.txt yet
RobotsInit ==
    /\ robots_txt = <<>> /\ policy = None /\ req_path = <<>> /\ answer = TRUE
    /\ QueueIdle
    /\ NormalizerIdle
    /\ CacheIdle
    /\ CrawlIdle
    /\ TaskIdle
    /\ PrioritizerIdle
    /\ PriceIdle
    /\ ContentIdle
    /\ SitemapIdle
    /\ FingerprinterIdle
    /\ ScanApiIdle

\* one more line of the robots.txt the site serves
WriteLine(line) ==
    /\ policy = None
    /\ Len(robots_txt) < MaxLines
    /\ robots_txt' = Append(robots_txt, line)
    /\ UNCHANGED <<policy, req_path, answer, outside_robots>>

\* rule = self._parse(response.text)
Parse ==
    /\ policy = None
    /\ policy' = Some(_parse(robots_txt))
    /\ UNCHANGED <<robots_txt, req_path, answer, outside_robots>>

\* is_allowed(rule, p)
IsAllowed(p) ==
    /\ policy # None
    /\ req_path' = p
    /\ answer' = is_allowed(policy[1], p)
    /\ UNCHANGED <<robots_txt, policy, outside_robots>>

RobotsNext ==
    \/ \E line \in LINES : WriteLine(line)
    \/ Parse
    \/ \E p \in ASKED : IsAllowed(p)

\* the answers of the two loops of is_allowed() for the path asked about
SomeAllow == \E i \in DOMAIN policy[1].allowed : _matches(policy[1].allowed[i], req_path)
SomeDisallow == \E i \in DOMAIN policy[1].disallowed : _matches(policy[1].disallowed[i], req_path)

\* C15: is_allowed(rule, path) is true whenever an Allow pattern matches, also
\* when a Disallow pattern matches too; it is false only when no Allow pattern
\* and some Disallow pattern matches; it is true when no rule matches.
C15_AllowFirst ==
    (policy # None /\ req_path # <<>>) =>
        /\ SomeAllow => answer
        /\ ~answer <=> (~SomeAllow /\ SomeDisallow)
        /\ (~SomeAllow /\ ~SomeDisallow) => answer

\* an Allow and a Disallow pattern both match the path, and the answer is True
C15_Witness ==
    /\ policy # None /\ req_path # <<>>
    /\ SomeAllow /\ SomeDisallow /\ answer

\* the agents of the block line i of text stands in: the User-agent lines that
\* stand together last before line i
BlockAgents(text, i) ==
    LET uas == {j \in 1..(i - 1) : lower(text[j].key) = "user-agent"} IN
    IF uas = {} THEN {}
    ELSE LET last == CHOOSE j \in uas : \A k \in uas : k <= j
             run == {j \in uas : \A k \in j..last : k \in uas}
         IN {lower(text[j].value[1]) : j \in run}

\* the lines of text with this key and value in a block for "*" or "googlebot"
AddressedLines(text, key, value) ==
    {i \in DOMAIN text :
        /\ lower(text[i].key) = key /\ text[i].value = value
        /\ BlockAgents(text, i) \cap {"*", "googlebot"} # {}}

\* C16: the policy holds rules only from User-agent blocks addressed to "*" or
\* to the crawler's own token: a rule of a block addressed to another agent
\* alone is not in the policy, wherever the block stands in the file.
C16_OwnBlocksOnly ==
    policy # None =>
        \A pattern \in PATTERNS :
            /\ Count(policy[1].disallowed, pattern)
                   <= Cardinality(AddressedLines(robots_txt, "disallow", pattern))
            /\ Count(policy[1].allowed, pattern)
                   <= Cardinality(AddressedLines(robots_txt, "allow", pattern))

----------------------------------------------------------------------------
(* RobotsParser.fetch_and_parse(base_url) for one base_url: policy is the   *)
(* cache entry, cached_at its timestamp, robots_txt what the site serves.   *)

\* self._cache_ttl
_cache_ttl == 3600

\* timedelta: days and seconds are kept apart, seconds is below one day
SecondsPerDay == 24 * 60 * 60

\* the longest time the clock runs, in days
MaxDays == 1

\* how far the clock moves between two calls
STEPS == {_cache_ttl \div 2, SecondsPerDay}

\* what the site serves, at one time and another
SITE_TEXTS ==
    {<<[key |-> "User-agent", value |-> <<"*">>], [key |-> "Disallow", value |-> <<"/">>]>>,
     <<[key |-> "User-agent", value |-> <<"*">>], [key |-> "Allow", value |-> <<"/", "a", "$">>]>>}

\* timedelta.seconds of a time span of d seconds, d >= 0
seconds(d) == d % SecondsPerDay

\* "(datetime.utcnow() - cached_at).seconds < self._cache_ttl"
Fresh(t, at) == seconds(t - at) < _cache_ttl

\* the rule a request gives: the parsed text on status 200, the empty rule otherwise
Fetched(ok) == IF ok THEN _parse(robots_txt) ELSE RobotsRule(<<>>, <<>>)

CacheInit ==
    /\ robots_txt \in SITE_TEXTS
    /\ policy = None /\ req_path = <<>> /\ answer = TRUE
    /\ now = 0 /\ cached_at = 0 /\ returned = None /\ refetched = FALSE
    /\ QueueIdle
    /\ NormalizerIdle
    /\ CrawlIdle
    /\ TaskIdle
    /\ PrioritizerIdle
    /\ PriceIdle
    /\ ContentIdle
    /\ SitemapIdle
    /\ FingerprinterIdle
    /\ ScanApiIdle

\* time passes
Tick(d) ==
    /\ now + d <= MaxDays * SecondsPerDay + _cache_ttl
    /\ now' = now + d
    /\ UNCHANGED <<robots_txt, policy, cached_at, returned, refetched, outside_cache>>

\* the site changes its robots.txt
SiteChanges(text) ==
    /\ robots_txt' = text
    /\ UNCHANGED <<policy, now, cached_at, returned, refetched, outside_cache>>

\* fetch_and_parse(base_url); ok: the request is answered with status 200
FetchAndParse(ok) ==
    IF policy # None /\ Fresh(now, cached_at)
    THEN /\ returned' = policy
         /\ refetched' = FALSE
         /\ UNCHANGED <<robots_txt, policy, now, cached_at, outside_cache>>
    ELSE /\ policy' = Some(Fetched(ok))
         /\ cached_at' = now
         /\ returned' = Some(Fetched(ok))
         /\ refetched' = TRUE
         /\ UNCHANGED <<robots_txt, now, outside_cache>>

CacheNext ==
    \/ \E d \in STEPS : Tick(d)
    \/ \E text \in SITE_TEXTS : SiteChanges(text)
    \/ \E ok \in BOOLEAN : FetchAndParse(ok)

\* C17: fetch_and_parse() returns the cached rule without a request only while
\* the entry is younger than the TTL of 3600 s; for every age of 3600 s or
\* more, more than one day included, it requests robots.txt again and
\* replaces the entry.
C17_CacheTtl ==
    [][\A ok \in BOOLEAN :
          (policy # None /\ FetchAndParse(ok)) =>
              IF now - cached_at < _cache_ttl
              THEN returned' = policy /\ ~refetched' /\ UNCHANGED <<policy, cached_at>>
              ELSE /\ refetched'
                   /\ policy' = Some(Fetched(ok)) /\ cached_at' = now
                   /\ returned' = policy'
      ]_cache_vars

----------------------------------------------------------------------------
(* PlaywrightCrawler.crawl(url, scan_id, db, progress_callback, max_pages). *)
(* A URL is its origin followed by the characters of its path:              *)
(* <<"https://ex.com", "/", "a">>.                                           *)

\* the page budget of crawl() (default 100), kept small
max_pages == 3

base_url == "https://ex.com"
SEED == <<base_url>>
PAGE_A == <<base_url, "/", "a">>
PAGE_BA == <<base_url, "/", "b", "a">>
ELSEWHERE == <<"https://other.com", "/", "a">>

\* what _get_sitemap_urls() returns
SITEMAPS == {<<>>, <<PAGE_A, PAGE_BA>>, <<PAGE_A, PAGE_A, ELSEWHERE>>}

\* what _crawl_page_sync() returns: an error, or a page with its links
FETCHES ==
    {[error |-> TRUE, links |-> <<>>]}
        \cup [error : {FALSE}, links : {<<>>, <<PAGE_A, ELSEWHERE>>, <<PAGE_BA, SEED, PAGE_A>>}]

\* robots.txt files of the site; <<>> is none
ROBOTS_FILES ==
    {<<>>,
     <<[key |-> "User-agent", value |-> <<"*">>], [key |-> "Disallow", value |-> <<"/", "a">>]>>,
     <<[key |-> "User-agent", value |-> <<"*">>], [key |-> "Allow", value |-> <<"/", "a", "$">>],
       [key |-> "Disallow", value |-> <<"/">>]>>,
     <<[key |-> "User-agent", value |-> <<"bingbot">>], [key |-> "Disallow", value |-> <<"/">>]>>}

\* urlparse(next_url).path or "/"
PathOf(u) == IF Tail(u) = <<>> THEN <<"/">> ELSE Tail(u)

\* the loop of _check_robots_txt() over the lines: st is [current_agent, disallowed]
RECURSIVE CheckLines(_, _)
CheckLines(lines, st) ==
    IF lines = <<>> THEN st.disallowed
    ELSE LET key == lower(Head(lines).key)
             value == [i \in DOMAIN Head(lines).value |-> lower(Head(lines).value[i])]
             next ==
                 IF key = "user-agent"
                 THEN [st EXCEPT !.current_agent = value[1]]
                 ELSE IF key = "disallow" /\ st.current_agent \in {"*", "googlebot"}
                 THEN IF value # <<>> THEN [st EXCEPT !.disallowed = Append(@, value)] ELSE st
                 ELSE st
         IN CheckLines(Tail(lines), next)

\* PlaywrightCrawler._check_robots_txt(base_url, path), robots_cache holding text
_check_robots_txt(text, p) ==
    IF text = <<>> THEN TRUE
    ELSE LET disallowed == CheckLines(text, [current_agent |-> "", disallowed |-> <<>>])
         IN ~(\E i \in DOMAIN disallowed : startswith(p, disallowed[i]))

\* total_pages = min(len(queue), max_pages), taken once before the loop
TotalPages(q) == IF Len(q) < max_pages THEN Len(q) ELSE max_pages

\* int((pages_crawled / total_pages) * 100)
Percent(crawled, total) == (crawled * 100) \div total

\* the while test with <= for <
LoopingOffByOne == crawl_pc = "loop" /\ crawl_queue # <<>> /\ pages_crawled <= max_pages

\* the while test of crawl()
Looping == crawl_pc = "loop" /\ crawl_queue # <<>> /\ pages_crawled < max_pages

\* crawl() up to its while loop
CrawlInit ==
    /\ robots_txt \in ROBOTS_FILES
    /\ \E sitemap_urls \in SITEMAPS : crawl_queue = <<SEED>> \o sitemap_urls
    /\ visited_urls = {}
    /\ pages_crawled = 0
    /\ scan_pages = {}
    /\ crawl_pc = "loop"
    /\ total_pages = TotalPages(crawl_queue)
    /\ progress = 0
    /\ policy = None /\ req_path = <<>> /\ answer = TRUE
    /\ QueueIdle
    /\ NormalizerIdle
    /\ CacheIdle
    /\ TaskIdle
    /\ PrioritizerIdle
    /\ PriceIdle
    /\ ContentIdle
    /\ SitemapIdle
    /\ FingerprinterIdle
    /\ ScanApiIdle

\* one turn of the loop that ends in "continue"
Skip ==
    LET next_url == Head(crawl_queue) IN
    /\ Looping
    /\ next_url \in visited_urls \/ ~_check_robots_txt(robots_txt, PathOf(next_url))
    /\ crawl_queue' = Tail(crawl_queue)
    /\ UNCHANGED <<visited_urls, pages_crawled, scan_pages, crawl_pc, total_pages, progress, outside_crawl>>

\* one turn of the loop that dispatches next_url; result is what the fetch returns
Fetch(result) ==
    LET next_url == Head(crawl_queue)
        visited == visited_urls \cup {next_url}
        Wanted(link) == link[1] = base_url /\ link \notin visited
    IN /\ Looping
       /\ next_url \notin visited_urls
       /\ _check_robots_txt(robots_txt, PathOf(next_url))
       /\ visited_urls' = visited
       /\ crawl_queue' = IF result.error
                         THEN Tail(crawl_queue)
                         ELSE Tail(crawl_queue) \o SelectSeq(result.links, Wanted)
       /\ scan_pages' = IF result.error THEN scan_pages ELSE scan_pages \cup {next_url}
       /\ pages_crawled' = pages_crawled + 1
       /\ progress' = Percent(pages_crawled + 1, total_pages)
       /\ UNCHANGED <<crawl_pc, total_pages, outside_crawl>>

\* the loop is left: return {"pages_crawled": pages_crawled}
Return ==
    /\ crawl_pc = "loop"
    /\ ~Looping
    /\ crawl_pc' = "done"
    /\ UNCHANGED <<crawl_queue, visited_urls, pages_crawled, scan_pages, total_pages, progress, outside_crawl>>

CrawlNext ==
    \/ Skip
    \/ \E result \in FETCHES : Fetch(result)
    \/ Return

\* C18: every URL crawl() dispatches to the page fetcher is allowed by the
\* Robots Policy for its path, a URL that is not allowed is skipped and not
\* counted as a page, and the answer crawl() acts on is, for every robots.txt
\* and path, the answer of RobotsParser (_parse, then is_allowed).
C18_RobotsGate ==
    /\ [](\A u \in visited_urls : _check_robots_txt(robots_txt, PathOf(u)))
    /\ [](\A p \in ASKED : _check_robots_txt(robots_txt, p) = is_allowed(_parse(robots_txt), p))
    /\ [][Skip => pages_crawled' = pages_crawled]_crawl_vars

C27_ProgressInRange == progress \in 0..100

----------------------------------------------------------------------------
(* crawl_competitor(competitor_id, scan_id) and _run_full_crawl: the        *)
(* background task of a scan that was created with status "pending".        *)

\* exceptions that end the crawl or the analysis
EXCEPTIONS == {"browser has been closed", "connection is closed"}

\* the task has been scheduled
TaskInit ==
    /\ competitor_found \in BOOLEAN
    /\ scan_status = "pending" /\ error_message = None
    /\ task_pc = "start" /\ task_error = None
    /\ robots_txt \in ROBOTS_FILES
    /\ policy = None /\ req_path = <<>> /\ answer = TRUE
    /\ CrawlIdle
    /\ QueueIdle
    /\ NormalizerIdle
    /\ CacheIdle
    /\ PrioritizerIdle
    /\ PriceIdle
    /\ ContentIdle
    /\ SitemapIdle
    /\ FingerprinterIdle
    /\ ScanApiIdle

\* the Competitor is looked up; without it ValueError goes up to crawl_competitor
Lookup ==
    /\ task_pc = "start"
    /\ IF competitor_found
       THEN task_pc' = "found" /\ UNCHANGED task_error
       ELSE task_pc' = "done" /\ task_error' = Some("Competitor not found")
    /\ UNCHANGED <<competitor_found, scan_status, error_message, crawl_vars, outside_task>>

\* scan.status = "running" is committed and crawl() starts
MarkRunning ==
    /\ task_pc = "found"
    /\ scan_status' = "running"
    /\ task_pc' = "running"
    /\ \E sitemap_urls \in SITEMAPS : crawl_queue' = <<SEED>> \o sitemap_urls
    /\ visited_urls' = {} /\ pages_crawled' = 0 /\ scan_pages' = {} /\ crawl_pc' = "loop"
    /\ total_pages' = TotalPages(crawl_queue')
    /\ UNCHANGED progress
    /\ UNCHANGED <<competitor_found, error_message, task_error, outside_task>>

\* crawl() has returned and the pages are analysed: the scan is marked completed
MarkCompleted ==
    /\ task_pc = "running" /\ crawl_pc = "done"
    /\ scan_status' = "completed"
    /\ progress' = 100
    /\ task_pc' = "done"
    /\ UNCHANGED <<competitor_found, error_message, task_error, outside_task>>
    /\ UNCHANGED <<crawl_queue, visited_urls, pages_crawled, scan_pages, crawl_pc, total_pages>>

\* an exception leaves the try block: the scan is marked failed, the exception re-raised
MarkFailed(e) ==
    /\ task_pc = "running"
    /\ scan_status' = "failed"
    /\ error_message' = Some(e)
    /\ task_error' = Some(e)
    /\ task_pc' = "done"
    /\ crawl_pc' = IF crawl_pc = "loop" THEN "raised" ELSE crawl_pc
    /\ UNCHANGED <<competitor_found, crawl_queue, visited_urls, pages_crawled, scan_pages, total_pages, progress, outside_task>>

TaskNext ==
    \/ Lookup
    \/ MarkRunning
    \/ CrawlNext
    \/ MarkCompleted
    \/ \E e \in EXCEPTIONS : MarkFailed(e)

\* C20: when the crawl task of a scan ends on an error, the absence of the
\* competitor record included, the scan has status failed and the message of
\* the error as error_message; no scan is left pending or running by a task
\* that has ended.
C20_FatalMarksFailed ==
    task_pc = "done" =>
        /\ scan_status \notin {"pending", "running"}
        /\ task_error # None => (scan_status = "failed" /\ error_message = task_error)

----------------------------------------------------------------------------
(* URLPrioritizer.get_priority(url, link_type).  A path is a sequence of    *)
(* pieces and a pattern a sequence of regular-expression elements over the  *)
(* same pieces.                                                             *)

\* the most pieces of a path after its first "/"
MaxPieces == 3

PIECES == {"/", "pricing", "Blog", "about", "tag", "x"}
DIGITS == {"1"}
PRIO_QUERIES == {<<>>, <<"?", "page=", "1">>}
LINK_TYPES ==
    {None} \cup {Some(t) : t \in {"pricing", "product", "content", "documentation",
                                  "navigation", "auth", "footer", ""}}

RECURSIVE Pieces(_)
\* the sequences of at most n pieces
Pieces(n) ==
    IF n = 0 THEN {<<>>}
    ELSE Pieces(n - 1) \cup {Append(s, c) : s \in {t \in Pieces(n - 1) : Len(t) = n - 1}, c \in PIECES}

PRIO_PATHS == {<<>>} \cup {<<"/">> \o s : s \in Pieces(MaxPieces)}
PRIO_URLS == {<<"https", "://", "ex.com">> \o p \o q : p \in PRIO_PATHS, q \in PRIO_QUERIES}

\* elements of a pattern: a literal piece, an optional piece ("s?"), and the
\* regular-expression operators ^, $, \d+ and .*
L(t) == [k |-> "lit", t |-> t]
O(t) == [k |-> "opt", t |-> t]
Bol == [k |-> "^", t |-> ""]
Eol == [k |-> "$", t |-> ""]
Digits == [k |-> "\\d+", t |-> ""]
AnyChars == [k |-> ".*", t |-> ""]

\* URLPrioritizer.PRIORITY_PATTERNS, in the order of the dict
PRIORITY_PATTERNS ==
    << [priority |-> CRITICAL, patterns |->
          << <<Bol, L("/"), Eol>>,
             <<Bol, L("/"), L("home"), O("/"), Eol>>,
             <<Bol, L("/"), L("index.htm"), O("l"), Eol>> >>],
       [priority |-> HIGH, patterns |->
          << <<L("/"), L("pricing")>>,
             <<L("/"), L("plans")>>,
             <<L("/"), L("product"), O("s"), L("/")>>,
             <<L("/"), L("features")>>,
             <<L("/"), L("shop")>>,
             <<L("/"), L("store")>>,
             <<L("/"), L("buy")>> >>],
       [priority |-> MEDIUM, patterns |->
          << <<L("/"), L("blog"), L("/")>>,
             <<L("/"), L("post"), O("s"), L("/")>>,
             <<L("/"), L("article"), O("s"), L("/")>>,
             <<L("/"), L("news"), L("/")>>,
             <<L("/"), L("case-study")>>,
             <<L("/"), L("solutions")>> >>],
       [priority |-> LOW, patterns |->
          << <<L("/"), L("about")>>,
             <<L("/"), L("team")>>,
             <<L("/"), L("careers")>>,
             <<L("/"), L("contact")>>,
             <<L("/"), L("privacy")>>,
             <<L("/"), L("terms")>>,
             <<L("/"), L("legal")>>,
             <<L("/"), L("docs"), L("/")>>,
             <<L("/"), L("help"), L("/")>>,
             <<L("/"), L("support"), L("/")>>,
             <<L("/"), L("faq")>> >>],
       [priority |-> DEFERRED, patterns |->
          << <<L("/"), L("tag"), L("/")>>,
             <<L("/"), L("category"), L("/")>>,
             <<L("/"), L("author"), L("/")>>,
             <<L("/"), L("page"), L("/"), Digits>>,
             <<L("?"), AnyChars, L("page=")>>,
             <<L("/"), L("archive"), L("/")>> >>] >>

\* whether the pattern matches a prefix of s
RECURSIVE MatchHere(_, _)
MatchHere(regex, s) ==
    IF regex = <<>> THEN TRUE
    ELSE LET e == Head(regex)
             rest == Tail(regex)
         IN CASE e.k = "lit" -> s # <<>> /\ Head(s) = e.t /\ MatchHere(rest, Tail(s))
              [] e.k = "opt" -> \/ s # <<>> /\ Head(s) = e.t /\ MatchHere(rest, Tail(s))
                                \/ MatchHere(rest, s)
              [] e.k = "$" -> s = <<>> /\ MatchHere(rest, s)
              [] e.k = "\\d+" -> \E n \in 1..Len(s) :
                                    /\ \A i \in 1..n : s[i] \in DIGITS
                                    /\ MatchHere(rest, SubSeq(s, n + 1, Len(s)))
              [] e.k = ".*" -> \E n \in 0..Len(s) : MatchHere(rest, SubSeq(s, n + 1, Len(s)))
              [] OTHER -> FALSE

\* re.search(pattern, s) is not None
re_search(regex, s) ==
    IF Head(regex).k = "^"
    THEN MatchHere(Tail(regex), s)
    ELSE \E n \in 0..Len(s) : MatchHere(regex, SubSeq(s, n + 1, Len(s)))

\* "for pattern in patterns: if re.search(pattern, path)"
RECURSIVE AnySearch(_, _)
AnySearch(patterns, p) ==
    IF patterns = <<>> THEN FALSE
    ELSE IF re_search(Head(patterns), p) THEN TRUE
    ELSE AnySearch(Tail(patterns), p)

\* "for priority, patterns in cls.PRIORITY_PATTERNS.items()": the priority
\* returned from inside the loops, None when the loops end
RECURSIVE FirstTier(_, _)
FirstTier(table, p) ==
    IF table = <<>> THEN None
    ELSE IF AnySearch(Head(table).patterns, p) THEN Some(Head(table).priority)
    ELSE FirstTier(Tail(table), p)

\* type_priorities.get(link_type, CrawlPriority.MEDIUM)
type_priorities(t) ==
    CASE t \in {"pricing", "product"} -> HIGH
      [] t = "content" -> MEDIUM
      [] t \in {"documentation", "navigation"} -> LOW
      [] t = "auth" -> DEFERRED
      [] OTHER -> MEDIUM

\* get_priority that asks the link type before the patterns
get_priorityHintFirst(u, lt) ==
    LET p == [i \in DOMAIN urlparse(u).path |-> lower(urlparse(u).path[i])]
        hit == FirstTier(PRIORITY_PATTERNS, p)
    IN IF lt # None /\ lt # Some("") THEN type_priorities(lt[1])
       ELSE IF hit # None THEN hit[1]
       ELSE MEDIUM

get_priority(u, lt) ==
    LET p == [i \in DOMAIN urlparse(u).path |-> lower(urlparse(u).path[i])]
        hit == FirstTier(PRIORITY_PATTERNS, p)
    IN IF hit # None THEN hit[1]
       ELSE IF lt # None /\ lt # Some("") THEN type_priorities(lt[1])
       ELSE MEDIUM

PrioInit ==
    /\ prio_url \in PRIO_URLS
    /\ link_type \in LINK_TYPES
    /\ priority = None
    /\ QueueIdle
    /\ NormalizerIdle
    /\ RobotsIdle
    /\ CacheIdle
    /\ CrawlIdle
    /\ TaskIdle
    /\ PriceIdle
    /\ ContentIdle
    /\ SitemapIdle
    /\ FingerprinterIdle
    /\ ScanApiIdle

GetPriority ==
    /\ priority = None
    /\ priority' = Some(get_priority(prio_url, link_type))
    /\ UNCHANGED <<prio_url, link_type, outside_prio>>

PrioNext == GetPriority

\* the path of the URL as get_priority() reads it, and the tiers with a pattern that matches it
PrioPath == [i \in DOMAIN urlparse(prio_url).path |-> lower(urlparse(prio_url).path[i])]
MatchingTiers ==
    {t \in TIERS : \E i \in DOMAIN PRIORITY_PATTERNS :
        /\ PRIORITY_PATTERNS[i].priority = t
        /\ \E j \in DOMAIN PRIORITY_PATTERNS[i].patterns :
              re_search(PRIORITY_PATTERNS[i].patterns[j], PrioPath)}
\* the tier of a link-context hint
HintTier(t) ==
    CASE t \in {"pricing", "product"} -> Some(HIGH)
      [] t = "content" -> Some(MEDIUM)
      [] t \in {"documentation", "navigation"} -> Some(LOW)
      [] t = "auth" -> Some(DEFERRED)
      [] OTHER -> None

\* C21: get_priority() returns the most urgent tier that has a pattern
\* matching the path of the URL; when no pattern of any tier matches, the
\* tier of the link-context hint, and MEDIUM when there is no known hint.
C21_MostUrgentMatch ==
    priority # None =>
        IF MatchingTiers # {}
        THEN /\ priority[1] \in MatchingTiers
             /\ \A t \in MatchingTiers : priority[1] <= t
        ELSE IF link_type # None /\ HintTier(link_type[1]) # None
        THEN priority = HintTier(link_type[1])
        ELSE priority = Some(MEDIUM)

\* a URL whose path matches patterns of two tiers, asked with a hint of a third, has been prioritized
C21_Witness ==
    /\ priority # None
    /\ {HIGH, LOW} \subseteq MatchingTiers
    /\ link_type = Some("auth")

----------------------------------------------------------------------------
(* PriceMonitor.process_prices() for one product of one competitor.  Prices *)
(* are Decimals with two places (Numeric(12, 2)) and are counted in cents.  *)
(* The rows are built by the constructor of the declarative base, which     *)
(* raises TypeError for a keyword that is no attribute of the model.        *)

\* the most PriceHistory rows of the product
MaxPrices == 3

\* self.price_change_threshold * 100, the threshold in percent
price_change_threshold == 1

\* extracted prices: 1.00, 1.01, 19.80, 19.99, 20.00 and 24.99
PRICES == {100, 101, 1980, 1999, 2000, 2499}

\* the attributes of the models PriceHistory, PriceAlert and Alert
PriceHistoryColumns ==
    {"id", "competitor_id", "product_name", "product_url", "price", "currency", "original_price",
     "discount_percent", "promotion_text", "is_on_sale", "captured_at", "competitor"}
PriceAlertColumns ==
    {"id", "competitor_id", "product_name", "old_price", "new_price", "change_type",
     "change_percentage", "url", "is_read", "created_at", "competitor"}
AlertColumns ==
    {"id", "competitor_id", "alert_type", "severity", "title", "message", "related_url",
     "alert_metadata", "is_read", "is_dismissed", "created_at", "competitor"}

\* the keywords process_prices() passes to the three constructors
PriceHistoryKeywords ==
    {"competitor_id", "product_name", "product_url", "price", "original_price", "currency",
     "is_on_sale", "discount_percent", "captured_at"}
PriceAlertKeywords == {"price_id", "change_type", "old_price", "new_price", "change_percent"}
PriceChangeAlertKeywords ==
    {"competitor_id", "alert_type", "severity", "title", "message", "related_url",
     "related_entity_id", "related_entity_type"}

\* Model(**keywords) returns a row: every keyword is an attribute of the model
Constructs(columns, keywords) == keywords \subseteq columns

abs(x) == IF x < 0 THEN -x ELSE x

\* "abs(change_percent) >= self.price_change_threshold * 100" with
\* change_percent = (new - old) / old * 100 and old > 0
AlertWorthy(old, new) == abs(new - old) * 100 >= price_change_threshold * old

\* what process_prices() returns, and the exception that leaves it
Results(n, u, same) == Some([status |-> "returned", new |-> n, updated |-> u, unchanged |-> same])
Raised(e) == Some([status |-> "raised", error |-> e])

PriceInit ==
    /\ price_history = <<>>
    /\ price_alerts = {}
    /\ price_results = None
    /\ QueueIdle
    /\ NormalizerIdle
    /\ RobotsIdle
    /\ CacheIdle
    /\ CrawlIdle
    /\ TaskIdle
    /\ PrioritizerIdle
    /\ ContentIdle
    /\ SitemapIdle
    /\ FingerprinterIdle
    /\ ScanApiIdle

\* the exception leaves process_prices() after the flush of the PriceHistory
\* row and before its commit: the caller's session commits the row (the
\* crawl task goes on with the same session) or discards it
RaiseTypeError(new) ==
    /\ price_history' \in {price_history, Append(price_history, new)}
    /\ price_results' = Raised("TypeError")
    /\ UNCHANGED price_alerts

\* process_prices() on a page with one price of the product
ProcessPrices(new) ==
    /\ Len(price_history) < MaxPrices
    /\ LET id == Len(price_history) + 1
           existing == price_history # <<>>
           old == price_history[Len(price_history)]
       IN IF ~Constructs(PriceHistoryColumns, PriceHistoryKeywords)
          THEN price_results' = Raised("TypeError") /\ UNCHANGED <<price_history, price_alerts>>
          ELSE IF ~existing
          THEN IF Constructs(PriceAlertColumns, PriceAlertKeywords)
               THEN /\ price_history' = Append(price_history, new)
                    /\ price_alerts' = price_alerts \cup {[price_id |-> id, change_type |-> "new"]}
                    /\ price_results' = Results(1, 0, 0)
               ELSE RaiseTypeError(new)
          ELSE IF old # new /\ AlertWorthy(old, new)
          THEN IF /\ Constructs(PriceAlertColumns, PriceAlertKeywords)
                  /\ Constructs(AlertColumns, PriceChangeAlertKeywords)
               THEN /\ price_history' = Append(price_history, new)
                    /\ price_alerts' = price_alerts \cup
                         {[price_id |-> id, change_type |-> IF new - old > 0 THEN "increase" ELSE "decrease"]}
                    /\ price_results' = Results(0, 1, 0)
               ELSE RaiseTypeError(new)
          ELSE /\ price_history' = Append(price_history, new)
               /\ UNCHANGED price_alerts
               /\ price_results' = Results(0, 0, 1)
    /\ UNCHANGED outside_price

PriceNext == \E new \in PRICES : ProcessPrices(new)

\* the price-change alerts of the PriceHistory row i
ChangeAlerts(i) == {a \in price_alerts : a.price_id = i /\ a.change_type # "new"}

\* C22: for a product with a recorded price old > 0, the observation of a
\* price new emits a price-change alert exactly when the relative delta
\* |new - old| / old is more than 1%; the alert is an increase when new > old
\* and a decrease when new < old; without an alert the price counts as
\* unchanged.
C22_AlertIffExceeds ==
    \A i \in 2..Len(price_history) :
        LET old == price_history[i - 1]
            new == price_history[i]
        IN /\ ChangeAlerts(i) # {} <=> (new # old /\ abs(new - old) * 100 > old)
           /\ \A a \in ChangeAlerts(i) :
                 a.change_type = IF new > old THEN "increase" ELSE "decrease"

----------------------------------------------------------------------------
(* ContentTracker.process_page() for one URL of one competitor, on the text *)
(* extract_main_content() returned.  A text is a sequence of pieces; the    *)
(* SHA-256 hash of a normalized text is modelled by the normalized text.    *)

\* the most calls of process_page() for the URL
MaxChecks == 3

\* self.min_content_length
min_content_length == 100

\* "<P>" and "<Q>" are paragraphs of 99 characters, "<p>" is "<P>" in lower case
PARAGRAPHS == {"<P>", "<p>", "<Q>"}
WHITESPACE == {" ", "\n"}
CONTENT_TEXTS ==
    {<<"<P>">>, <<"<P>", "x">>, <<"<p>", " ", "x">>, <<"<P>", " ", "\n", "x">>, <<"<Q>", "x">>}

\* len(text)
RECURSIVE len(_)
len(text) ==
    IF text = <<>> THEN 0
    ELSE (IF Head(text) \in PARAGRAPHS THEN 99 ELSE 1) + len(Tail(text))

\* re.sub(r'\s+', ' ', text): every run of whitespace becomes one blank
RECURSIVE CollapseWhitespace(_)
CollapseWhitespace(text) ==
    IF text = <<>> THEN <<>>
    ELSE IF Head(text) \in WHITESPACE
    THEN IF Len(text) > 1 /\ text[2] \in WHITESPACE
         THEN CollapseWhitespace(Tail(text))
         ELSE <<" ">> \o CollapseWhitespace(Tail(text))
    ELSE <<Head(text)>> \o CollapseWhitespace(Tail(text))

\* str.strip()
RECURSIVE strip(_)
strip(text) ==
    IF text # <<>> /\ Head(text) \in WHITESPACE THEN strip(Tail(text))
    ELSE IF text # <<>> /\ text[Len(text)] \in WHITESPACE THEN strip(SubSeq(text, 1, Len(text) - 1))
    ELSE text

\* str.lower() on the pieces of a text
LowerText(text) == [i \in DOMAIN text |-> IF text[i] = "<P>" THEN "<p>" ELSE text[i]]

\* ContentTracker.calculate_hash(content)
calculate_hash(text) == CollapseWhitespace(LowerText(strip(text)))

\* the attributes of the models Content and ContentChange
ContentColumns ==
    {"id", "competitor_id", "url", "title", "content_type", "content_hash", "word_count",
     "reading_time_minutes", "readability_score", "keywords", "first_seen", "last_updated",
     "competitor", "changes"}
ContentChangeColumns ==
    {"id", "content_id", "change_type", "field_changed", "old_value", "new_value", "old_hash",
     "new_hash", "word_count_change", "detected_at", "content"}

\* the keywords process_page() passes to the constructors
ContentKeywords ==
    {"competitor_id", "url", "title", "content_type", "word_count", "readability_score",
     "text_content", "content_hash", "has_changed", "keywords", "first_seen", "last_checked"}
ContentChangeKeywords == {"content_id", "change_type", "field_changed", "old_value", "new_value"}
ContentUpdateAlertKeywords ==
    {"competitor_id", "alert_type", "severity", "title", "message", "related_url",
     "related_entity_id", "related_entity_type"}
NewPageAlertKeywords ==
    {"competitor_id", "alert_type", "severity", "title", "message", "related_url"}

\* the part of the assigned attributes that is stored: the columns of Content
Stored(row) == [c \in DOMAIN row \cap ContentColumns |-> row[c]]

ContentInit ==
    /\ content_row = None
    /\ content_changes = 0
    /\ content_alerts = <<>>
    /\ content_results = <<>>
    /\ QueueIdle
    /\ NormalizerIdle
    /\ RobotsIdle
    /\ CacheIdle
    /\ CrawlIdle
    /\ TaskIdle
    /\ PrioritizerIdle
    /\ PriceIdle
    /\ SitemapIdle
    /\ FingerprinterIdle
    /\ ScanApiIdle

\* a call of process_page() with its outcome: the status returned or the exception raised
Call(text, s) == [text |-> text, status |-> s]

\* process_page() ends with outcome s and leaves the tables as they are
Ends(text, s) ==
    /\ content_results' = Append(content_results, Call(text, s))
    /\ UNCHANGED <<content_row, content_changes, content_alerts>>

\* process_page(competitor_id, url, html, title, db) where text_content is
\* the text extracted from html
ProcessPage(text_content) ==
    /\ Len(content_results) < MaxChecks
    /\ LET content_hash == calculate_hash(text_content)
           at == Len(content_results) + 1
       IN IF len(text_content) < min_content_length
          THEN Ends(text_content, "skipped")
          ELSE IF content_row # None
          THEN LET existing == content_row[1] IN
               IF existing.content_hash # content_hash
               THEN IF "text_content" \notin ContentColumns
                    THEN Ends(text_content, "AttributeError")
                    ELSE IF ~ /\ Constructs(ContentChangeColumns, ContentChangeKeywords)
                              /\ Constructs(AlertColumns, ContentUpdateAlertKeywords)
                    THEN Ends(text_content, "TypeError")
                    ELSE /\ content_changes' = content_changes + 1
                         /\ content_row' =
                               Some(Stored([content_hash |-> content_hash,
                                            previous_hash |-> existing.content_hash,
                                            has_changed |-> TRUE,
                                            first_seen |-> existing.first_seen,
                                            last_checked |-> at]))
                         /\ content_alerts' = Append(content_alerts, "content_update")
                         /\ content_results' = Append(content_results, Call(text_content, "updated"))
               ELSE /\ content_row' =
                          Some(Stored([c \in DOMAIN existing \cup {"has_changed", "last_checked"} |->
                                          IF c = "has_changed" THEN FALSE
                                          ELSE IF c = "last_checked" THEN at
                                          ELSE existing[c]]))
                    /\ content_results' = Append(content_results, Call(text_content, "unchanged"))
                    /\ UNCHANGED <<content_changes, content_alerts>>
          ELSE IF ~ /\ Constructs(ContentColumns, ContentKeywords)
                    /\ Constructs(AlertColumns, NewPageAlertKeywords)
          THEN Ends(text_content, "TypeError")
          ELSE /\ content_row' =
                     Some(Stored([content_hash |-> content_hash, has_changed |-> FALSE,
                                  first_seen |-> at, last_checked |-> at]))
               /\ content_alerts' = Append(content_alerts, "new_page")
               /\ content_results' = Append(content_results, Call(text_content, "new"))
               /\ UNCHANGED content_changes
    /\ UNCHANGED outside_content

ContentNext == \E text_content \in CONTENT_TEXTS : ProcessPage(text_content)

\* the observations so far: the calls that got a text of the minimum length
Observations == {i \in DOMAIN content_results : content_results[i].status # "skipped"}

\* C23: the first observation of a page creates the Content record and
\* emits exactly one new-page alert with status 'new'; a later observation
\* returns 'updated' with one more change record and one more
\* content-update alert, or 'unchanged' with nothing more; the record holds
\* the hash of the last observation; there are as many
\* change records as 'updated' results and as many alerts as 'new' and
\* 'updated' results.
C23_ContentStateMachine ==
    /\ \A i \in Observations :
          IF \A j \in Observations : i <= j
          THEN content_results[i].status = "new"
          ELSE content_results[i].status \in {"updated", "unchanged"}
    /\ Observations # {} =>
          /\ content_row # None
          /\ LET last == CHOOSE i \in Observations : \A j \in Observations : j <= i
             IN content_row[1].content_hash = calculate_hash(content_results[last].text)
    /\ content_changes = Cardinality({i \in Observations : content_results[i].status = "updated"})
    /\ Len(content_alerts) = Cardinality({i \in Observations : content_results[i].status \in {"new", "updated"}})

----------------------------------------------------------------------------
(* SitemapParser.parse(sitemap_url, max_urls).  A call is a frame: its     *)
(* arguments, len(urls), the position in sitemaps[:10] and where it stands: *)
(* "fetch" before the GET, "index" in the loop over the nested sitemaps,    *)
(* "return" at the return statement.  The lists of entries are counted.     *)

\* the deepest chain of calls the interpreter allows (sys.getrecursionlimit()
\* over the frames of one call); the call past it raises RecursionError
MaxNesting == 3

\* the largest max_urls passed to parse()
MaxBudget == 12

\* "for sitemap in sitemaps[:10]"
nested_limit == 10

SITEMAP_URLS == {"/sitemap.xml", "/a.xml", "/b.xml"}
BUDGETS == {1, 2, 3, MaxBudget}

Index(locs) == [status |-> 200, kind |-> "index", locs |-> locs, n |-> 0]
Urlset(n) == [status |-> 200, kind |-> "urlset", locs |-> <<>>, n |-> n]
NotFound == [status |-> 404, kind |-> "none", locs |-> <<>>, n |-> 0]

\* the sites: what "/sitemap.xml", "/a.xml" and "/b.xml" answer
SITES ==
    { [u \in SITEMAP_URLS |-> Urlset(3)],
      ("/sitemap.xml" :> Index(<<"/a.xml", "/b.xml">>) @@ "/a.xml" :> Urlset(2) @@ "/b.xml" :> Urlset(2)),
      ("/sitemap.xml" :> Index(<<"/a.xml", "/b.xml">>) @@ "/a.xml" :> NotFound @@ "/b.xml" :> Urlset(2)),
      ("/sitemap.xml" :> Index(<<"/a.xml", "/b.xml", "/a.xml">>) @@ "/a.xml" :> Urlset(0) @@ "/b.xml" :> Urlset(1)),
      ("/sitemap.xml" :> Index([i \in 1..(nested_limit + 1) |-> "/a.xml"])
          @@ "/a.xml" :> Urlset(1) @@ "/b.xml" :> Urlset(1)),
      ("/sitemap.xml" :> Index(<<"/a.xml">>) @@ "/a.xml" :> Index(<<"/b.xml", "/b.xml">>) @@ "/b.xml" :> Urlset(2)),
      ("/sitemap.xml" :> Index(<<"/sitemap.xml">>) @@ "/a.xml" :> Urlset(1) @@ "/b.xml" :> Urlset(1)),
      ("/sitemap.xml" :> Index(<<"/a.xml">>) @@ "/a.xml" :> Index(<<"/sitemap.xml", "/b.xml">>)
          @@ "/b.xml" :> Urlset(2)) }

Frame(u, m) == [url |-> u, max_urls |-> m, urls |-> 0, i |-> 1, pc |-> "fetch"]

Min(a, b) == IF a < b THEN a ELSE b

\* the second argument of the nested call that passes the whole budget on
NestedBudgetWhole(budget, urls) == budget

\* the second argument of the nested call, "max_urls - len(urls)"
NestedBudget(budget, urls) == budget - urls

\* len(urls) after the loop over the n url tags of a regular sitemap
TakeUrls(n, budget) == IF budget <= 0 THEN 0 ELSE Min(n, budget)

Top == sitemap_stack[Len(sitemap_stack)]
SetTop(f) == [sitemap_stack EXCEPT ![Len(sitemap_stack)] = f]

SitemapInit ==
    /\ sitemap_site \in SITES
    /\ \E budget \in BUDGETS : sitemap_stack = <<Frame("/sitemap.xml", budget)>>
    /\ sitemap_fetched = <<>>
    /\ sitemap_result = None
    /\ QueueIdle
    /\ NormalizerIdle
    /\ RobotsIdle
    /\ CacheIdle
    /\ CrawlIdle
    /\ TaskIdle
    /\ PrioritizerIdle
    /\ PriceIdle
    /\ ContentIdle
    /\ FingerprinterIdle
    /\ ScanApiIdle

\* "response = await client.get(sitemap_url)" and what follows up to the
\* first nested call or the return
FetchSitemap ==
    /\ sitemap_stack # <<>> /\ Top.pc = "fetch"
    /\ sitemap_fetched' = Append(sitemap_fetched, [url |-> Top.url, max_urls |-> Top.max_urls])
    /\ LET doc == sitemap_site[Top.url] IN
       sitemap_stack' =
           SetTop(IF doc.status # 200 THEN [Top EXCEPT !.pc = "return"]
                  ELSE IF doc.kind = "index" /\ doc.locs # <<>> THEN [Top EXCEPT !.pc = "index"]
                  ELSE [Top EXCEPT !.urls = TakeUrls(doc.n, Top.max_urls), !.pc = "return"])
    /\ UNCHANGED <<sitemap_site, sitemap_result, outside_sitemap>>

\* "nested = await cls.parse(loc.text, max_urls - len(urls))": the call is entered
NestedCall ==
    /\ sitemap_stack # <<>> /\ Top.pc = "index"
    /\ Len(sitemap_stack) < MaxNesting
    /\ sitemap_stack' =
           Append(sitemap_stack, Frame(sitemap_site[Top.url].locs[Top.i], NestedBudget(Top.max_urls, Top.urls)))
    /\ UNCHANGED <<sitemap_site, sitemap_fetched, sitemap_result, outside_sitemap>>

\* the nested call is one call too deep: RecursionError, which the
\* "except Exception" of the calling frame catches
RecursionError ==
    /\ sitemap_stack # <<>> /\ Top.pc = "index"
    /\ Len(sitemap_stack) >= MaxNesting
    /\ sitemap_stack' = SetTop([Top EXCEPT !.pc = "return"])
    /\ UNCHANGED <<sitemap_site, sitemap_fetched, sitemap_result, outside_sitemap>>

\* "return urls": to the calling frame, which extends its list and goes on
\* with its loop, or to the caller of the outermost call
ReturnUrls ==
    /\ sitemap_stack # <<>> /\ Top.pc = "return"
    /\ IF Len(sitemap_stack) = 1
       THEN /\ sitemap_result' = Some(Top.urls)
            /\ sitemap_stack' = <<>>
       ELSE LET caller == sitemap_stack[Len(sitemap_stack) - 1]
                urls == caller.urls + Top.urls
                last == Min(Len(sitemap_site[caller.url].locs), nested_limit)
            IN /\ sitemap_stack' =
                     [SubSeq(sitemap_stack, 1, Len(sitemap_stack) - 1) EXCEPT ![Len(sitemap_stack) - 1] =
                         [caller EXCEPT !.urls = urls,
                                        !.i = caller.i + 1,
                                        !.pc = IF urls >= caller.max_urls \/ caller.i >= last
                                               THEN "return" ELSE "index"]]
               /\ UNCHANGED sitemap_result
    /\ UNCHANGED <<sitemap_site, sitemap_fetched, outside_sitemap>>

SitemapNext == FetchSitemap \/ NestedCall \/ RecursionError \/ ReturnUrls

\* the budget of the outermost call: the one of the first GET
RootBudget == sitemap_fetched[1].max_urls

\* C24: parse(sitemap_url, max_urls) returns at most max_urls entries
\* however the indexes nest: no call holds more entries than its budget, an
\* index parses at most 10 nested sitemaps, a nested call gets the budget
\* that remains in its caller, and no sitemap is fetched with a used-up
\* budget.
C24_SharedBudget ==
    /\ sitemap_result # None => sitemap_result[1] <= RootBudget
    /\ \A k \in DOMAIN sitemap_stack :
          /\ sitemap_stack[k].urls <= sitemap_stack[k].max_urls
          /\ sitemap_stack[k].pc = "index" => sitemap_stack[k].i <= nested_limit
          /\ k > 1 => sitemap_stack[k].max_urls = sitemap_stack[k - 1].max_urls - sitemap_stack[k - 1].urls
    /\ \A k \in DOMAIN sitemap_fetched : sitemap_fetched[k].max_urls >= 1

\* an index of two sitemaps of two entries each was parsed with a budget of
\* three: the second one was fetched with a budget of one
C24_Witness ==
    /\ sitemap_result = Some(3)
    /\ Len(sitemap_fetched) = 3
    /\ sitemap_fetched[2].max_urls = 3
    /\ sitemap_fetched[3].max_urls = 1

----------------------------------------------------------------------------
(* ContentFingerprinter.generate(text)['full_hash'] of a text and of an     *)
(* edit of it.  A text is a sequence of characters; SHA-256 is modelled by  *)
(* the string it is applied to, so that equal hashes are equal normalized   *)
(* texts.                                                                   *)

\* the most characters of a text
MaxChars == 3

CHARS == {"a", "A", "1", ".", " ", "\n"}
\* the characters [^\w\s] matches
PUNCTUATION == {"."}

RECURSIVE Strings(_)
\* the texts of at most n characters
Strings(n) ==
    IF n = 0 THEN {<<>>}
    ELSE Strings(n - 1) \cup {Append(s, c) : s \in {t \in Strings(n - 1) : Len(t) = n - 1}, c \in CHARS}

FP_TEXTS == Strings(MaxChars)

\* the text itself and its edits by one character: one inserted, deleted or replaced
Edits(text) ==
    {text}
    \cup {SubSeq(text, 1, i - 1) \o SubSeq(text, i + 1, Len(text)) : i \in DOMAIN text}
    \cup {[text EXCEPT ![i] = c] : i \in DOMAIN text, c \in CHARS}
    \cup {SubSeq(text, 1, i) \o <<c>> \o SubSeq(text, i + 1, Len(text)) :
             i \in 0..(IF Len(text) < MaxChars THEN Len(text) ELSE -1), c \in CHARS}

\* re.sub(r'[^\w\s]', '', text)
RECURSIVE RemovePunctuation(_)
RemovePunctuation(text) ==
    IF text = <<>> THEN <<>>
    ELSE IF Head(text) \in PUNCTUATION THEN RemovePunctuation(Tail(text))
    ELSE <<Head(text)>> \o RemovePunctuation(Tail(text))

\* _normalize_text that leaves the whitespace as it is
_normalize_textNoCollapse(text) ==
    strip(RemovePunctuation([i \in DOMAIN text |-> IF text[i] = "A" THEN "a" ELSE text[i]]))

\* ContentFingerprinter._normalize_text(text)
_normalize_text(text) ==
    strip(RemovePunctuation(CollapseWhitespace([i \in DOMAIN text |-> IF text[i] = "A" THEN "a" ELSE text[i]])))

\* generate(text)['full_hash']
full_hash(text) == _normalize_text(text)

FpInit ==
    /\ fp_text \in FP_TEXTS
    /\ fp_edited = None
    /\ fp_hashes = None
    /\ QueueIdle
    /\ NormalizerIdle
    /\ RobotsIdle
    /\ CacheIdle
    /\ CrawlIdle
    /\ TaskIdle
    /\ PrioritizerIdle
    /\ PriceIdle
    /\ ContentIdle
    /\ SitemapIdle
    /\ ScanApiIdle

\* the page text changes, or stays as it is
EditText(edited) ==
    /\ fp_edited = None
    /\ edited \in Edits(fp_text)
    /\ fp_edited' = Some(edited)
    /\ UNCHANGED <<fp_text, fp_hashes, outside_fp>>

\* generate() is called on the text and on the edited text
Generate ==
    /\ fp_edited # None /\ fp_hashes = None
    /\ fp_hashes' = Some(<<full_hash(fp_text), full_hash(fp_edited[1])>>)
    /\ UNCHANGED <<fp_text, fp_edited, outside_fp>>

FpNext ==
    \/ \E edited \in FP_TEXTS : EditText(edited)
    \/ Generate

\* str.split(): the words of a text
RECURSIVE Words(_, _)
Words(text, word) ==
    IF text = <<>> THEN (IF word = <<>> THEN <<>> ELSE <<word>>)
    ELSE IF Head(text) \in WHITESPACE
    THEN (IF word = <<>> THEN <<>> ELSE <<word>>) \o Words(Tail(text), <<>>)
    ELSE Words(Tail(text), Append(word, Head(text)))

\* the words of a text without regard to letter case and punctuation
PlainWords(text) ==
    Words(RemovePunctuation([i \in DOMAIN text |-> IF text[i] = "A" THEN "a" ELSE text[i]]), <<>>)

----------------------------------------------------------------------------
(* Concurrent workers on one frontier *)

\* C26: with several workers running get() -> complete(u) | fail(u, err, item)
\* on one frontier, no URL is held by two workers at the same time: get()
\* never returns a URL that is in in_progress or completed, the entries it
\* removes without returning them are entries of such URLs, it returns nothing
\* only when it has emptied the queue, and a URL it returned is in in_progress
\* until its holder's complete or fail.
C26_NoDoubleHold ==
    [][/\ \A u \in URLS :
            /\ handed'[u] # handed[u] =>
                   /\ u \notin in_progress /\ u \notin completed
                   /\ held[u] = None
                   /\ u \in in_progress' /\ held'[u] # None
            /\ held[u] # None => u \in in_progress
            /\ held'[u] # None => u \in in_progress'
       /\ Len(queue') < Len(queue) =>
            /\ \A i \in DOMAIN queue :
                   Count(queue', queue[i]) < Count(queue, queue[i]) =>
                       \/ ~Eligible(queue[i])
                       \/ handed'[queue[i].url] # handed[queue[i].url]
            /\ handed' = handed => queue' = <<>>
      ]_vars

\* two URLs are held by workers at once, and a third, completed from outside
\* the cycle while it was queued, has been dropped by get() without being
\* handed out
C26_Witness ==
    \E u, v, w \in URLS :
        /\ u # v /\ held[u] # None /\ held[v] # None
        /\ u \in in_progress /\ v \in in_progress
        /\ w \in admitted /\ w \in completed /\ handed[w] = 0 /\ ~Queued(w)

----------------------------------------------------------------------------
(* The scan endpoints (api/crawl.py, api/competitors.py) and the background *)
(* tasks they schedule.  Each request handler and each task has its own     *)
(* database session; a step is what runs between two awaits on the          *)
(* database, and the steps of different handlers and tasks interleave.      *)

\* rows of "scans" the model lets the endpoints create
MaxScans == 3

\* creation requests that may be between their checks and their INSERT at once
MaxHandlers == 2

COMPETITORS == {"c1", "c2"}

CANCELLED == "Cancelled by user"
TASK_ERROR == "browser has been closed"

\* Scan(competitor_id=..., status="pending"); error_message is NULL
NewScan(c) == [competitor_id |-> c, status |-> "pending", error_message |-> None]

\* select(Scan).where(Scan.competitor_id == c, Scan.status == "running")
RunningScans(c) ==
    {s \in DOMAIN scans : scans[s].competitor_id = c /\ scans[s].status = "running"}

\* original_scan.status in ["failed", "completed"]
Retryable(s) == scans[s].status \in {"failed", "completed"}

\* the endpoints that add a row
CREATORS == {"create_scan", "trigger_scan", "retry_scan"}
SCAN_TYPES == {"full", "quick"}
SCAN_IDS == 1..MaxScans

ScanApiInit ==
    /\ scans = <<>>
    /\ scan_tasks = <<>>
    /\ inserting = [op \in CREATORS, c \in COMPETITORS |-> 0]
    /\ QueueIdle
    /\ NormalizerIdle
    /\ RobotsIdle
    /\ CacheIdle
    /\ CrawlIdle
    /\ TaskIdle
    /\ PrioritizerIdle
    /\ PriceIdle
    /\ ContentIdle
    /\ SitemapIdle
    /\ FingerprinterIdle

RECURSIVE Sum(_, _)
Sum(f, keys) ==
    IF keys = {} THEN 0
    ELSE LET k == CHOOSE x \in keys : TRUE IN f[k] + Sum(f, keys \ {k})

\* the creation requests between their checks and their INSERT
InFlight == Sum(inserting, DOMAIN inserting)

\* the checks of create_scan(): 400 when a scan of the competitor is running,
\* otherwise the handler goes on to add its row
create_scan(c) ==
    /\ InFlight < MaxHandlers
    /\ RunningScans(c) = {}
    /\ inserting' = [inserting EXCEPT !["create_scan", c] = @ + 1]
    /\ UNCHANGED <<scans, scan_tasks, outside_scan>>

\* the checks of trigger_scan(), the same as those of create_scan()
trigger_scan(c) ==
    /\ InFlight < MaxHandlers
    /\ RunningScans(c) = {}
    /\ inserting' = [inserting EXCEPT !["trigger_scan", c] = @ + 1]
    /\ UNCHANGED <<scans, scan_tasks, outside_scan>>

\* the checks of retry_scan(): 400 unless the original scan is failed or completed
retry_scan(s) ==
    /\ s \in DOMAIN scans
    /\ InFlight < MaxHandlers
    /\ Retryable(s)
    /\ inserting' = [inserting EXCEPT !["retry_scan", scans[s].competitor_id] = @ + 1]
    /\ UNCHANGED <<scans, scan_tasks, outside_scan>>

\* db.add(scan), commit, background_tasks.add_task(crawl_competitor, ...);
\* create_scan() with scan_type quick schedules no task for the row
AddScan(op, c, scan_type) ==
    /\ inserting[op, c] > 0
    /\ op # "create_scan" => scan_type = "full"
    /\ Len(scans) < MaxScans
    /\ inserting' = [inserting EXCEPT ![op, c] = @ - 1]
    /\ scans' = Append(scans, NewScan(c))
    /\ scan_tasks' = Append(scan_tasks, IF scan_type = "full" THEN "scheduled" ELSE "none")
    /\ UNCHANGED outside_scan

\* cancel_scan(scan_id): 400 for a completed scan, otherwise the row is set to failed
cancel_scan(s) ==
    /\ s \in DOMAIN scans
    /\ scans[s].status # "completed"
    /\ scans' = [scans EXCEPT ![s].status = "failed", ![s].error_message = Some(CANCELLED)]
    /\ UNCHANGED <<scan_tasks, inserting, outside_scan>>

\* _run_full_crawl: scan.status = "running", commit
TaskRunning(s) ==
    /\ s \in DOMAIN scans
    /\ scan_tasks[s] = "scheduled"
    /\ scans' = [scans EXCEPT ![s].status = "running"]
    /\ scan_tasks' = [scan_tasks EXCEPT ![s] = "running"]
    /\ UNCHANGED <<inserting, outside_scan>>

\* _run_full_crawl: scan.status = "completed", commit
TaskCompleted(s) ==
    /\ s \in DOMAIN scans
    /\ scan_tasks[s] = "running"
    /\ scans' = [scans EXCEPT ![s].status = "completed"]
    /\ scan_tasks' = [scan_tasks EXCEPT ![s] = "done"]
    /\ UNCHANGED <<inserting, outside_scan>>

\* _run_full_crawl: except Exception: scan.status = "failed", error_message = str(e)
TaskFailed(s) ==
    /\ s \in DOMAIN scans
    /\ scan_tasks[s] = "running"
    /\ scans' = [scans EXCEPT ![s].status = "failed", ![s].error_message = Some(TASK_ERROR)]
    /\ scan_tasks' = [scan_tasks EXCEPT ![s] = "done"]
    /\ UNCHANGED <<inserting, outside_scan>>

ScanApiNext ==
    \/ \E c \in COMPETITORS : create_scan(c)
    \/ \E c \in COMPETITORS : trigger_scan(c)
    \/ \E s \in SCAN_IDS : retry_scan(s)
    \/ \E op \in CREATORS, c \in COMPETITORS, scan_type \in SCAN_TYPES : AddScan(op, c, scan_type)
    \/ \E s \in SCAN_IDS : cancel_scan(s)
    \/ \E s \in SCAN_IDS : TaskRunning(s)
    \/ \E s \in SCAN_IDS : TaskCompleted(s)
    \/ \E s \in SCAN_IDS : TaskFailed(s)

\* C28: at most one scan per competitor is in status running at any time,
\* under every interleaving of the requests that create scans (create_scan,
\* trigger_scan, retry_scan) and the background tasks they start.
C28_OneRunningScan == \A c \in COMPETITORS : Cardinality(RunningScans(c)) <= 1

\* C29: a scan's status only moves pending -> running -> completed or failed,
\* and once a scan is completed or failed, failed with "Cancelled by user" by
\* cancel_scan included, its status never changes again, whatever the
\* background task of the scan does afterwards.  (pending -> failed is
\* counted as allowed, for a scan cancelled before its task began.)
C29_StatusMonotone ==
    [][\A s \in DOMAIN scans :
          scans'[s].status # scans[s].status =>
              <<scans[s].status, scans'[s].status>> \in
                  {<<"pending", "running">>, <<"running", "completed">>,
                   <<"running", "failed">>, <<"pending", "failed">>}
      ]_scan_vars

----------------------------------------------------------------------------
(* Specifications *)

\* any sequence of calls
Spec == Init /\ [][Next]_all_vars

\* add, add_many, get, and complete or fail(url, error, item) by the holder of the item
WorkerSpec == Init /\ [][WorkerNext]_all_vars
FrontierSpec == Init /\ [][FrontierNext]_all_vars

\* add, get, and complete, fail(url, error, item) or release by the holder of the item
ReleaseSpec == Init /\ [][ReleaseNext]_all_vars

\* normalize() applied to a URL, and to its result
NormSpec == NormInit /\ [][NormNext]_all_vars

\* a robots.txt is written line by line, parsed, and asked about paths
RobotsSpec == RobotsInit /\ [][RobotsNext]_all_vars

\* calls of fetch_and_parse() for one site while time passes and the site changes
CacheSpec == CacheInit /\ [][CacheNext]_all_vars

\* one run of crawl()
CrawlSpec == CrawlInit /\ [][CrawlNext]_all_vars

\* one run of crawl() in which every await returns
CrawlFairSpec == CrawlInit /\ [][CrawlNext]_all_vars /\ WF_all_vars(CrawlNext)

\* one run of the background task of a scan
TaskSpec == TaskInit /\ [][TaskNext]_all_vars

\* single calls of URLPrioritizer.get_priority
PrioSpec == PrioInit /\ [][PrioNext]_all_vars

\* successive observations of the price of one product
PriceSpec == PriceInit /\ [][PriceNext]_all_vars

\* successive calls of ContentTracker.process_page for one URL
ContentSpec == ContentInit /\ [][ContentNext]_all_vars

\* one call of SitemapParser.parse on the main sitemap of a site
SitemapSpec == SitemapInit /\ [][SitemapNext]_all_vars

\* a text, one edit of it, and the fingerprints of both
FpSpec == FpInit /\ [][FpNext]_all_vars
ScanApiSpec == ScanApiInit /\ [][ScanApiNext]_all_vars
====
